---- MODULE Spec2Model ----
(***************************************************************************)
(* State-machine model of the SocialBondFhe contract (src/README.md,       *)
(* lines 102-348): access control, batch lifecycle, bond submission with   *)
(* homomorphic aggregation, and the decryption request/callback protocol.  *)
(*                                                                         *)
(* Every external call is one atomic step.  A reverted call leaves the     *)
(* whole state untouched, so it is a stuttering step; the error it raises *)
(* is the value of the handler's ...Error operator.  Handles are modelled by *)
(* the 32-bit plaintext they encrypt, kept as two 16-bit halves so that    *)
(* FHE.add wraps modulo 2^32 exactly.                                      *)
(*                                                                         *)
(* The web front end (src/frontend/web/src/App.tsx) is modelled next to    *)
(* it: createBond, investInBond and loadBonds over the key/value store     *)
(* they reach through getData and setData.  Each await of a call is a      *)
(* point where the calls of other clients may run.                         *)
(***************************************************************************)
EXTENDS Integers, Sequences, FiniteSets, TLC

VARIABLES
    owner,                      \* address public owner
    providers,                  \* mapping(address => bool)
    lastSubmissionTime,         \* mapping(address => uint256)
    lastDecryptionRequestTime,  \* mapping(address => uint256)
    cooldownSeconds,            \* uint256, initially 60
    paused,                     \* bool
    currentBatchId,             \* uint256
    batchOpen,                  \* bool
    decryptionContexts,         \* mapping(uint256 => DecryptionContext)
    bonds,                      \* mapping(uint256 => Bond)
    totalBonds,                 \* uint256
    batches,                    \* mapping(uint256 => Batch)
    now,                        \* block.timestamp
    pendingCts,                 \* handles the oracle holds per request id
    submitted,                  \* history: amounts accepted per batch
    completed,                  \* history: DecryptionCompleted per request id
    data,                       \* front end: what getData/setData hold per key
    calls,                      \* front end: each client's call in progress
    ledger                      \* history: front-end calls that succeeded

cvars == <<owner, providers, lastSubmissionTime, lastDecryptionRequestTime,
           cooldownSeconds, paused, currentBatchId, batchOpen,
           decryptionContexts, bonds, totalBonds, batches>>

vars == <<owner, providers, lastSubmissionTime, lastDecryptionRequestTime,
          cooldownSeconds, paused, currentBatchId, batchOpen,
          decryptionContexts, bonds, totalBonds, batches,
          now, pendingCts, submitted, completed, data, calls, ledger>>

\* the state of the web front end (src/frontend/web/src/App.tsx)
webvars == <<data, calls, ledger>>

----------------------------------------------------------------------------
(* Bounds of the model *)

MaxBatches == 2     \* openBatch is explored up to this batch id
MaxBonds == 2       \* submitBond is explored up to this many bonds
MaxRequests == 2    \* requestBatchDecryption is explored this many times
MaxTime == 120      \* block.timestamp is explored up to this value
MaxCreations == 2   \* createBond is explored for this many bonds
MaxInvestments == 3 \* investInBond is explored for this many calls

(* Program constants *)

InitialCooldown == 60
HalfWord == 65536   \* 2^16; a euint32 is two of these

----------------------------------------------------------------------------
(* Addresses and inputs *)

ZeroAddress == "0x0"
Deployer == "alice"
Callers == {"alice", "bob"}            \* accounts that send transactions
Addr == Callers \cup {ZeroAddress}
This == "SocialBondFhe"                \* address(this)

BatchIds == 0..MaxBatches
BondIds == 1..MaxBonds
ReqIds == 0..MaxRequests
FirstBlockTime == InitialCooldown      \* block.timestamp at deployment
Ticks == {60}                          \* seconds between explored blocks
CooldownInputs == {0, 60, 120}         \* arguments of setCooldownSeconds

U32(h, l) == [hi |-> h, lo |-> l]
Zero32 == U32(0, 0)
\* 100, 250 and 2^32 - 100
Amounts == {U32(0, 100), U32(0, 250), U32(65535, 65436)}
Maturities == {U32(0, 365)}

----------------------------------------------------------------------------
(* The encryption primitive, on plaintext-tagged handles *)

\* FHE.add on euint32: addition modulo 2^32
FheAdd(a, b) ==
    LET l == a.lo + b.lo
        h == a.hi + b.hi + (l \div HalfWord)
    IN  U32(h % HalfWord, l % HalfWord)

\* FHE.asEuint32 of a plaintext integer (truncated to 32 bits)
AsEuint32(n) == U32((n \div HalfWord) % HalfWord, n % HalfWord)

\* FHE.toBytes32: the handle itself
ToBytes32(h) == h

\* bytes32(0), the stateHash of a context that was never written
ZeroHash == <<>>

\* faulty variant: the commitment covers the total-amount handle only
HashCiphertexts_TotalOnly(cts) == <<<<cts[1]>>, This>>

\* keccak256(abi.encode(cts, address(this))): injective in its arguments
HashCiphertexts(cts) == <<cts, This>>

\* the two handles committed for a batch
BatchCts(batchId) ==
    <<ToBytes32(batches[batchId].totalEncryptedAmount),
      ToBytes32(AsEuint32(batches[batchId].bondCount))>>

\* what the oracle decrypts: the plaintexts behind the handles
Decrypt(cts) == cts

\* a proof is either forged or a KMS signature over (requestId, cleartexts)
Forged == [signed |-> FALSE, requestId |-> 0, cleartexts |-> <<Zero32, Zero32>>]
Sign(r, clear) == [signed |-> TRUE, requestId |-> r, cleartexts |-> clear]

\* FHE.checkSignatures(requestId, cleartexts, proof)
CheckSignatures(requestId, cleartexts, proof) ==
    /\ proof.signed
    /\ proof.requestId = requestId
    /\ proof.cleartexts = cleartexts

----------------------------------------------------------------------------
(* Outcomes *)

Ok == "ok"

\* the first failing check, in the order the code evaluates them
FirstError(checks) ==
    LET bad == {i \in 1..Len(checks) : checks[i] # Ok}
    IN  IF bad = {} THEN Ok
        ELSE checks[CHOOSE i \in bad : \A j \in bad : i <= j]

\* a reverted call: nothing is written and no event is emitted
Revert(e) == UNCHANGED vars

----------------------------------------------------------------------------
(* Modifiers *)

\* faulty variant: the caller is compared with the deployer, not the owner
onlyOwner_Deployer(sender) == IF sender # Deployer THEN "NotOwner" ELSE Ok

onlyOwner(sender) == IF sender # owner THEN "NotOwner" ELSE Ok

onlyProvider(sender) == IF ~providers[sender] THEN "NotProvider" ELSE Ok

whenNotPaused == IF paused THEN "PausedState" ELSE Ok

\* faulty variant: the window is measured with the cooldown set at deployment
checkSubmissionCooldown_InitialValue(sender) ==
    IF now < lastSubmissionTime[sender] + InitialCooldown
    THEN "CooldownActive" ELSE Ok

\* faulty variant: the cooldown still rejects at exactly stamp + cooldown
checkSubmissionCooldown_Inclusive(sender) ==
    IF now <= lastSubmissionTime[sender] + cooldownSeconds
    THEN "CooldownActive" ELSE Ok

checkSubmissionCooldown(sender) ==
    IF now < lastSubmissionTime[sender] + cooldownSeconds
    THEN "CooldownActive" ELSE Ok

\* faulty variant: the decryption cooldown reads the submission stamp
checkDecryptionCooldown_SharedStamp(sender) ==
    IF now < lastSubmissionTime[sender] + cooldownSeconds
    THEN "CooldownActive" ELSE Ok

checkDecryptionCooldown(sender) ==
    IF now < lastDecryptionRequestTime[sender] + cooldownSeconds
    THEN "CooldownActive" ELSE Ok

----------------------------------------------------------------------------
(* Front end: values and encodings (src/frontend/web/src/App.tsx) *)

Clients == Callers                     \* browsers with a connected wallet
WebBondIds == 1..(MaxCreations + 1)    \* bond ids; the last is never created
WebAmounts == {5, 7}                   \* amounts typed into the invest form
WebTargets == {100}                    \* targetAmount of the create form
WebMaturity == 365                     \* maturityDate of a new bond

\* the JavaScript number NaN, kept apart from the non-negative integers
NaN == -1

\* JavaScript +, on the non-negative integers and NaN
Plus(a, b) == IF a = NaN \/ b = NaN THEN NaN ELSE a + b

Digit(d) == <<"0", "1", "2", "3", "4", "5", "6", "7", "8", "9">>[d + 1]
DigitChars == {Digit(d) : d \in 0..9}
DigitValue(ch) == CHOOSE d \in 0..9 : Digit(d) = ch

RECURSIVE Decimal(_)
Decimal(n) ==
    IF n < 10 THEN <<Digit(n)>>
    ELSE Append(Decimal(n \div 10), Digit(n % 10))

\* value.toString(): the characters of the decimal form
NumberToString(value) ==
    IF value = NaN THEN <<"N", "a", "N">> ELSE Decimal(value)

RECURSIVE DigitPrefix(_)
\* the leading digits of a string
DigitPrefix(str) ==
    IF str = <<>> \/ Head(str) \notin DigitChars THEN <<>>
    ELSE <<Head(str)>> \o DigitPrefix(Tail(str))

RECURSIVE DigitsValue(_)
DigitsValue(ds) ==
    IF ds = <<>> THEN 0
    ELSE 10 * DigitsValue(SubSeq(ds, 1, Len(ds) - 1))
            + DigitValue(ds[Len(ds)])

\* parseFloat: the number the leading digits spell, NaN without any
ParseFloat(str) ==
    IF DigitPrefix(str) = <<>> THEN NaN ELSE DigitsValue(DigitPrefix(str))

\* btoa / atob: base64 is a bijection, kept as one opaque character
Btoa(str) == <<[base64 |-> str]>>
Atob(str) == str[1].base64

FhePrefix == "FHE-"

FHEEncryptNumber(value) == <<FhePrefix>> \o Btoa(NumberToString(value))

FHEDecryptNumber(encryptedData) ==
    IF encryptedData # <<>> /\ Head(encryptedData) = FhePrefix
    THEN ParseFloat(Atob(Tail(encryptedData)))
    ELSE ParseFloat(encryptedData)

\* the properties of a stored bond, in the order createBond writes them
BondFields == <<"name", "issuer", "targetAmount", "currentRaised",
                "impactCategory", "maturityDate", "status",
                "encryptedDetails">>

\* JSON.stringify of an object: its properties in insertion order
JSONStringify(obj) ==
    [i \in 1..Len(BondFields) |-> <<BondFields[i], obj[BondFields[i]]>>]

\* JSON.parse of such a text
JSONParse(text) ==
    [f \in {text[i][1] : i \in 1..Len(text)} |->
        text[CHOOSE i \in 1..Len(text) : text[i][1] = f][2]]

\* JSON.stringify / JSON.parse of the array of bond ids
JSONStringifyKeys(keys) == <<"[">> \o keys \o <<"]">>
JSONParseKeys(text) == SubSeq(text, 2, Len(text) - 1)

\* ethers.toUtf8Bytes / ethers.toUtf8String
ToUtf8Bytes(str) == [utf8 |-> str]
ToUtf8String(bytes) == bytes.utf8
EmptyBytes == ToUtf8Bytes(<<>>)
Length(bytes) == Len(ToUtf8String(bytes))

\* the keys of the contract's data store
KeysKey == <<"bond_keys">>
BondKey(bondId) == <<"bond_", bondId>>
DataKeys == {KeysKey} \cup {BondKey(id) : id \in WebBondIds}

\* contract.getData(key) and the store after contract.setData(key, value)
GetData(key) == data[key]
SetData(key, value) == [data EXCEPT ![key] = value]

\* a client with no call in progress, and the empty history
Idle == [pc |-> "idle", bondId |-> 0, amount |-> 0, pending |-> <<>>,
         bonds |-> <<>>]
NoCalls == [created |-> <<>>, taken |-> 0, started |-> 0, failed |-> 0,
            invested |-> [id \in WebBondIds |-> 0],
            original |-> [id \in WebBondIds |-> <<>>]]

----------------------------------------------------------------------------
(* Construction *)

DefaultContext == [batchId |-> 0, stateHash |-> ZeroHash, processed |-> FALSE]
DefaultBatch == [totalEncryptedAmount |-> Zero32, bondCount |-> 0,
                 finalized |-> FALSE]
DefaultBond == [encryptedAmount |-> Zero32, encryptedMaturity |-> Zero32]

Init ==
    /\ owner = Deployer
    /\ providers = [a \in Addr |-> FALSE]
    /\ lastSubmissionTime = [a \in Addr |-> 0]
    /\ lastDecryptionRequestTime = [a \in Addr |-> 0]
    /\ cooldownSeconds = InitialCooldown
    /\ paused = FALSE
    /\ currentBatchId = 0
    /\ batchOpen = FALSE
    /\ decryptionContexts = [r \in ReqIds |-> DefaultContext]
    /\ bonds = [i \in BondIds |-> DefaultBond]
    /\ totalBonds = 0
    /\ batches = [b \in BatchIds |-> DefaultBatch]
    /\ now = FirstBlockTime
    /\ pendingCts = [r \in ReqIds |-> <<>>]
    /\ submitted = [b \in BatchIds |-> <<>>]
    /\ completed = [r \in ReqIds |-> <<>>]
    /\ data = [k \in DataKeys |-> EmptyBytes]
    /\ calls = [c \in Clients |-> Idle]
    /\ ledger = NoCalls

----------------------------------------------------------------------------
(* Access control *)

\* faulty variant: transferOwnership refuses the zero address
TransferOwnershipError_RejectsZero(sender, newOwner) ==
    FirstError(<<onlyOwner(sender),
                 IF newOwner = ZeroAddress THEN "InvalidOwner" ELSE Ok>>)

TransferOwnershipError(sender, newOwner) == FirstError(<<onlyOwner(sender)>>)

TransferOwnership(sender, newOwner) ==
    LET e == TransferOwnershipError(sender, newOwner) IN
    IF e # Ok THEN Revert(e)
    ELSE /\ owner' = newOwner
         /\ UNCHANGED <<webvars, now, providers, lastSubmissionTime,
                        lastDecryptionRequestTime,
                        cooldownSeconds, paused, currentBatchId, batchOpen,
                        decryptionContexts, bonds, totalBonds, batches,
                        pendingCts, submitted, completed>>

AddProvider(sender, provider) ==
    LET e == onlyOwner(sender) IN
    IF e # Ok THEN Revert(e)
    ELSE /\ providers' = [providers EXCEPT ![provider] = TRUE]
         /\ UNCHANGED <<webvars, now, owner, lastSubmissionTime,
                        lastDecryptionRequestTime,
                        cooldownSeconds, paused, currentBatchId, batchOpen,
                        decryptionContexts, bonds, totalBonds, batches,
                        pendingCts, submitted, completed>>

RemoveProvider(sender, provider) ==
    LET e == onlyOwner(sender) IN
    IF e # Ok THEN Revert(e)
    ELSE /\ providers' = [providers EXCEPT ![provider] = FALSE]
         /\ UNCHANGED <<webvars, now, owner, lastSubmissionTime,
                        lastDecryptionRequestTime,
                        cooldownSeconds, paused, currentBatchId, batchOpen,
                        decryptionContexts, bonds, totalBonds, batches,
                        pendingCts, submitted, completed>>

\* faulty variant: setCooldownSeconds without the zero check
SetCooldownSecondsError_AllowsZero(sender, newCooldownSeconds) ==
    FirstError(<<onlyOwner(sender)>>)

SetCooldownSecondsError(sender, newCooldownSeconds) ==
    FirstError(<<onlyOwner(sender),
                 IF newCooldownSeconds = 0 THEN "InvalidCooldown" ELSE Ok>>)

SetCooldownSeconds(sender, newCooldownSeconds) ==
    LET e == SetCooldownSecondsError(sender, newCooldownSeconds) IN
    IF e # Ok THEN Revert(e)
    ELSE /\ cooldownSeconds' = newCooldownSeconds
         /\ UNCHANGED <<webvars, now, owner, providers, lastSubmissionTime,
                        lastDecryptionRequestTime, paused, currentBatchId,
                        batchOpen, decryptionContexts, bonds, totalBonds,
                        batches, pendingCts, submitted, completed>>

\* faulty variant: pause without the already-paused check
PauseError_NoPausedCheck(sender) == FirstError(<<onlyOwner(sender)>>)

PauseError(sender) == FirstError(<<onlyOwner(sender), whenNotPaused>>)

Pause(sender) ==
    LET e == PauseError(sender) IN
    IF e # Ok THEN Revert(e)
    ELSE /\ paused' = TRUE
         /\ UNCHANGED <<webvars, now, owner, providers, lastSubmissionTime,
                        lastDecryptionRequestTime, cooldownSeconds,
                        currentBatchId, batchOpen, decryptionContexts, bonds,
                        totalBonds, batches, pendingCts, submitted,
                        completed>>

UnpauseError(sender) == FirstError(<<onlyOwner(sender)>>)

Unpause(sender) ==
    LET e == UnpauseError(sender) IN
    IF e # Ok THEN Revert(e)
    ELSE /\ paused' = FALSE
         /\ UNCHANGED <<webvars, now, owner, providers, lastSubmissionTime,
                        lastDecryptionRequestTime, cooldownSeconds,
                        currentBatchId, batchOpen, decryptionContexts, bonds,
                        totalBonds, batches, pendingCts, submitted,
                        completed>>

----------------------------------------------------------------------------
(* Batch lifecycle *)

\* faulty variant: openBatch without the BatchAlreadyOpen check
OpenBatchError_NoOpenCheck(sender) ==
    FirstError(<<onlyOwner(sender), whenNotPaused>>)

OpenBatchError(sender) ==
    FirstError(<<onlyOwner(sender), whenNotPaused,
                 IF batchOpen THEN "BatchAlreadyOpen" ELSE Ok>>)

\* explored while the next batch id is within MaxBatches
OpenBatch(sender) ==
    LET e == OpenBatchError(sender) IN
    IF e # Ok THEN Revert(e)
    ELSE /\ currentBatchId < MaxBatches
         /\ currentBatchId' = currentBatchId + 1
         /\ batchOpen' = TRUE
         /\ batches' = [batches EXCEPT ![currentBatchId + 1] =
                           [totalEncryptedAmount |-> Zero32,
                            bondCount |-> 0,
                            finalized |-> FALSE]]
         /\ UNCHANGED <<webvars, now, owner, providers, lastSubmissionTime,
                        lastDecryptionRequestTime, cooldownSeconds, paused,
                        decryptionContexts, bonds, totalBonds, pendingCts,
                        submitted, completed>>

\* faulty variant: closeBatch without the BatchNotOpen check
CloseBatchError_NoOpenCheck(sender) ==
    FirstError(<<onlyOwner(sender), whenNotPaused>>)

CloseBatchError(sender) ==
    FirstError(<<onlyOwner(sender), whenNotPaused,
                 IF ~batchOpen THEN "BatchNotOpen" ELSE Ok>>)

\* faulty variant: closeBatch finalizes the batch but leaves batchOpen set
CloseBatch_KeepsOpen(sender) ==
    LET e == CloseBatchError(sender) IN
    IF e # Ok THEN Revert(e)
    ELSE /\ batches' = [batches EXCEPT ![currentBatchId].finalized = TRUE]
         /\ UNCHANGED <<webvars, now, owner, providers, lastSubmissionTime,
                        lastDecryptionRequestTime, cooldownSeconds, paused,
                        currentBatchId, batchOpen, decryptionContexts, bonds,
                        totalBonds, pendingCts, submitted, completed>>

CloseBatch(sender) ==
    LET e == CloseBatchError(sender) IN
    IF e # Ok THEN Revert(e)
    ELSE /\ batchOpen' = FALSE
         /\ batches' = [batches EXCEPT ![currentBatchId].finalized = TRUE]
         /\ UNCHANGED <<webvars, now, owner, providers, lastSubmissionTime,
                        lastDecryptionRequestTime, cooldownSeconds, paused,
                        currentBatchId, decryptionContexts, bonds, totalBonds,
                        pendingCts, submitted, completed>>

----------------------------------------------------------------------------
(* Submission pipeline *)

\* faulty variant: submitBond without the BatchNotOpen check
SubmitBondError_NoBatchCheck(sender) ==
    FirstError(<<onlyProvider(sender), whenNotPaused,
                 checkSubmissionCooldown(sender)>>)

\* faulty variant: the open batch is checked before the cooldown
SubmitBondError_BatchFirst(sender) ==
    FirstError(<<onlyProvider(sender), whenNotPaused,
                 IF ~batchOpen THEN "BatchNotOpen" ELSE Ok,
                 checkSubmissionCooldown(sender)>>)

\* faulty variant: submitBond without the pause check
SubmitBondError_NoPauseCheck(sender) ==
    FirstError(<<onlyProvider(sender),
                 checkSubmissionCooldown(sender),
                 IF ~batchOpen THEN "BatchNotOpen" ELSE Ok>>)

SubmitBondError(sender) ==
    FirstError(<<onlyProvider(sender), whenNotPaused,
                 checkSubmissionCooldown(sender),
                 IF ~batchOpen THEN "BatchNotOpen" ELSE Ok>>)

\* faulty variant: the total is overwritten by the new amount instead of accumulated
AddToBatch_Overwrite(batch, encryptedAmount) ==
    [batch EXCEPT
        !.totalEncryptedAmount = encryptedAmount,
        !.bondCount = batch.bondCount + 1]

\* the batch record after one bond's amount is added to it
\* faulty variant: the amount is accumulated but the bond is not counted
AddToBatch_NoCount(batch, encryptedAmount) ==
    [batch EXCEPT
        !.totalEncryptedAmount = FheAdd(batch.totalEncryptedAmount,
                                        encryptedAmount)]

AddToBatch(batch, encryptedAmount) ==
    [batch EXCEPT
        !.totalEncryptedAmount = FheAdd(batch.totalEncryptedAmount,
                                        encryptedAmount),
        !.bondCount = batch.bondCount + 1]

\* faulty variant: the bond is stored under its number within the batch
SubmitBond_PerBatchIds(sender, encryptedAmount, encryptedMaturity) ==
    LET e == SubmitBondError(sender) IN
    IF e # Ok THEN Revert(e)
    ELSE /\ totalBonds < MaxBonds
         /\ totalBonds' = totalBonds + 1
         /\ bonds' = [bonds EXCEPT ![batches[currentBatchId].bondCount + 1] =
                         [encryptedAmount |-> encryptedAmount,
                          encryptedMaturity |-> encryptedMaturity]]
         /\ batches' = [batches EXCEPT ![currentBatchId] =
                           AddToBatch(batches[currentBatchId], encryptedAmount)]
         /\ lastSubmissionTime' = [lastSubmissionTime EXCEPT ![sender] = now]
         /\ submitted' = [submitted EXCEPT ![currentBatchId] =
                             Append(@, encryptedAmount)]
         /\ UNCHANGED <<webvars, now, owner, providers, lastDecryptionRequestTime,
                        cooldownSeconds, paused, currentBatchId, batchOpen,
                        decryptionContexts, pendingCts, completed>>

\* explored while the next bond id is within MaxBonds
SubmitBond(sender, encryptedAmount, encryptedMaturity) ==
    LET e == SubmitBondError(sender) IN
    IF e # Ok THEN Revert(e)
    ELSE /\ totalBonds < MaxBonds
         /\ totalBonds' = totalBonds + 1
         /\ bonds' = [bonds EXCEPT ![totalBonds + 1] =
                         [encryptedAmount |-> encryptedAmount,
                          encryptedMaturity |-> encryptedMaturity]]
         /\ batches' = [batches EXCEPT ![currentBatchId] =
                           AddToBatch(batches[currentBatchId], encryptedAmount)]
         /\ lastSubmissionTime' = [lastSubmissionTime EXCEPT ![sender] = now]
         /\ submitted' = [submitted EXCEPT ![currentBatchId] =
                             Append(@, encryptedAmount)]
         /\ UNCHANGED <<webvars, now, owner, providers, lastDecryptionRequestTime,
                        cooldownSeconds, paused, currentBatchId, batchOpen,
                        decryptionContexts, pendingCts, completed>>

----------------------------------------------------------------------------
(* Decryption request / callback protocol *)

\* faulty variant: the batch id is range-checked but not required to be finalized
InvalidBatchCheck_NoFinalized(batchId) ==
    IF batchId = 0 \/ batchId > currentBatchId
    THEN "InvalidBatch" ELSE Ok

\* faulty variant: a batch without bonds is not accepted for decryption
InvalidBatchCheck_RejectsEmpty(batchId) ==
    IF \/ batchId = 0 \/ batchId > currentBatchId
       \/ ~batches[batchId].finalized \/ batches[batchId].bondCount = 0
    THEN "InvalidBatch" ELSE Ok

InvalidBatchCheck(batchId) ==
    IF batchId = 0 \/ batchId > currentBatchId \/ ~batches[batchId].finalized
    THEN "InvalidBatch" ELSE Ok

\* faulty variant: a batch whose decryption has completed cannot be
\* requested again
RequestBatchDecryptionError_OncePerBatch(sender, batchId) ==
    FirstError(<<onlyOwner(sender), whenNotPaused,
                 checkDecryptionCooldown(sender),
                 InvalidBatchCheck(batchId),
                 IF \E r \in ReqIds :
                       /\ decryptionContexts[r].batchId = batchId
                       /\ decryptionContexts[r].processed
                 THEN "InvalidBatch" ELSE Ok>>)

\* faulty variant: requestBatchDecryption without the pause check
RequestBatchDecryptionError_NoPauseCheck(sender, batchId) ==
    FirstError(<<onlyOwner(sender),
                 checkDecryptionCooldown(sender),
                 InvalidBatchCheck(batchId)>>)

RequestBatchDecryptionError(sender, batchId) ==
    FirstError(<<onlyOwner(sender), whenNotPaused,
                 checkDecryptionCooldown(sender),
                 InvalidBatchCheck(batchId)>>)

\* request ids the oracle has issued so far
Issued == {r \in ReqIds : pendingCts[r] # <<>>}

\* FHE.requestDecryption numbers the contract's requests 0, 1, 2, ...
NextRequestId == Cardinality(Issued)

\* faulty variant: the commitment is computed over the current batch, not
\* over the requested one
RequestBatchDecryption_HashesCurrent(sender, batchId) ==
    LET e == RequestBatchDecryptionError(sender, batchId)
        requestId == NextRequestId
    IN
    IF e # Ok THEN Revert(e)
    ELSE /\ requestId < MaxRequests
         /\ pendingCts' = [pendingCts EXCEPT ![requestId] = BatchCts(batchId)]
         /\ decryptionContexts' =
               [decryptionContexts EXCEPT ![requestId] =
                   [batchId |-> batchId,
                    stateHash |-> HashCiphertexts(BatchCts(currentBatchId)),
                    processed |-> FALSE]]
         /\ lastDecryptionRequestTime' =
               [lastDecryptionRequestTime EXCEPT ![sender] = now]
         /\ UNCHANGED <<webvars, now, owner, providers, lastSubmissionTime,
                        cooldownSeconds,
                        paused, currentBatchId, batchOpen, bonds, totalBonds,
                        batches, submitted, completed>>

\* explored for the first MaxRequests requests
RequestBatchDecryption(sender, batchId) ==
    LET e == RequestBatchDecryptionError(sender, batchId)
        requestId == NextRequestId
    IN
    IF e # Ok THEN Revert(e)
    ELSE /\ requestId < MaxRequests
         /\ pendingCts' = [pendingCts EXCEPT ![requestId] = BatchCts(batchId)]
         /\ decryptionContexts' =
               [decryptionContexts EXCEPT ![requestId] =
                   [batchId |-> batchId,
                    stateHash |-> HashCiphertexts(BatchCts(batchId)),
                    processed |-> FALSE]]
         /\ lastDecryptionRequestTime' =
               [lastDecryptionRequestTime EXCEPT ![sender] = now]
         /\ UNCHANGED <<webvars, now, owner, providers, lastSubmissionTime,
                        cooldownSeconds,
                        paused, currentBatchId, batchOpen, bonds, totalBonds,
                        batches, submitted, completed>>

\* faulty variant: myCallback without the replay check
MyCallbackError_NoReplayCheck(requestId, cleartexts, proof) ==
    FirstError(<<
        IF HashCiphertexts(BatchCts(decryptionContexts[requestId].batchId))
              # decryptionContexts[requestId].stateHash
        THEN "StateMismatch" ELSE Ok,
        IF ~CheckSignatures(requestId, cleartexts, proof)
        THEN "InvalidProof" ELSE Ok>>)

\* faulty variant: myCallback without the proof check
MyCallbackError_NoProofCheck(requestId, cleartexts, proof) ==
    FirstError(<<
        IF decryptionContexts[requestId].processed THEN "ReplayAttempt" ELSE Ok,
        IF HashCiphertexts(BatchCts(decryptionContexts[requestId].batchId))
              # decryptionContexts[requestId].stateHash
        THEN "StateMismatch" ELSE Ok>>)

\* faulty variant: myCallback gated by whenNotPaused like the other entry points
MyCallbackError_WhenNotPaused(requestId, cleartexts, proof) ==
    FirstError(<<
        whenNotPaused,
        IF decryptionContexts[requestId].processed THEN "ReplayAttempt" ELSE Ok,
        IF HashCiphertexts(BatchCts(decryptionContexts[requestId].batchId))
              # decryptionContexts[requestId].stateHash
        THEN "StateMismatch" ELSE Ok,
        IF ~CheckSignatures(requestId, cleartexts, proof)
        THEN "InvalidProof" ELSE Ok>>)

\* faulty variant: myCallback without the state-hash check
MyCallbackError_NoStateCheck(requestId, cleartexts, proof) ==
    FirstError(<<
        IF decryptionContexts[requestId].processed THEN "ReplayAttempt" ELSE Ok,
        IF ~CheckSignatures(requestId, cleartexts, proof)
        THEN "InvalidProof" ELSE Ok>>)

\* faulty variant: the proof is verified before the state hash is compared
MyCallbackError_ProofFirst(requestId, cleartexts, proof) ==
    FirstError(<<
        IF decryptionContexts[requestId].processed THEN "ReplayAttempt" ELSE Ok,
        IF ~CheckSignatures(requestId, cleartexts, proof)
        THEN "InvalidProof" ELSE Ok,
        IF HashCiphertexts(BatchCts(decryptionContexts[requestId].batchId))
              # decryptionContexts[requestId].stateHash
        THEN "StateMismatch" ELSE Ok>>)

MyCallbackError(requestId, cleartexts, proof) ==
    FirstError(<<
        IF decryptionContexts[requestId].processed THEN "ReplayAttempt" ELSE Ok,
        IF HashCiphertexts(BatchCts(decryptionContexts[requestId].batchId))
              # decryptionContexts[requestId].stateHash
        THEN "StateMismatch" ELSE Ok,
        IF ~CheckSignatures(requestId, cleartexts, proof)
        THEN "InvalidProof" ELSE Ok>>)

\* faulty variant: the two decoded values are taken in the wrong order
DecodeCleartexts_Swapped(cleartexts) == <<cleartexts[2], cleartexts[1]>>

\* abi.decode(cleartexts, (uint32, uint32))
DecodeCleartexts(cleartexts) == <<cleartexts[1], cleartexts[2]>>

\* the DecryptionCompleted event a successful callback emits
DecryptionCompleted(requestId, batchId, totalAmount, bondCount) ==
    [requestId |-> requestId, batchId |-> batchId,
     totalAmount |-> totalAmount, bondCount |-> bondCount]

\* faulty variant: processed is written before the proof check, and a failed
\* proof check returns without undoing it
MyCallback_MarksFirst(sender, requestId, cleartexts, proof) ==
    LET e == MyCallbackError(requestId, cleartexts, proof)
        batchId == decryptionContexts[requestId].batchId
        decoded == DecodeCleartexts(cleartexts)
    IN
    IF e \notin {Ok, "InvalidProof"} THEN Revert(e)
    ELSE /\ decryptionContexts' =
               [decryptionContexts EXCEPT ![requestId].processed = TRUE]
         /\ completed' =
               IF e = Ok
               THEN [completed EXCEPT ![requestId] =
                       Append(@, DecryptionCompleted(requestId, batchId,
                                                     decoded[1], decoded[2]))]
               ELSE completed
         /\ UNCHANGED <<webvars, now, owner, providers, lastSubmissionTime,
                        lastDecryptionRequestTime, cooldownSeconds, paused,
                        currentBatchId, batchOpen, bonds, totalBonds, batches,
                        pendingCts, submitted>>

\* faulty variant: a completed request's context is deleted to free storage
MyCallback_DeletesContext(sender, requestId, cleartexts, proof) ==
    LET e == MyCallbackError(requestId, cleartexts, proof)
        batchId == decryptionContexts[requestId].batchId
        decoded == DecodeCleartexts(cleartexts)
    IN
    IF e # Ok THEN Revert(e)
    ELSE /\ decryptionContexts' =
               [decryptionContexts EXCEPT ![requestId] = DefaultContext]
         /\ completed' = [completed EXCEPT ![requestId] =
               Append(@, DecryptionCompleted(requestId, batchId,
                                             decoded[1], decoded[2]))]
         /\ UNCHANGED <<webvars, now, owner, providers, lastSubmissionTime,
                        lastDecryptionRequestTime, cooldownSeconds, paused,
                        currentBatchId, batchOpen, bonds, totalBonds, batches,
                        pendingCts, submitted>>

MyCallback(sender, requestId, cleartexts, proof) ==
    LET e == MyCallbackError(requestId, cleartexts, proof)
        batchId == decryptionContexts[requestId].batchId
        decoded == DecodeCleartexts(cleartexts)
    IN
    IF e # Ok THEN Revert(e)
    ELSE /\ decryptionContexts' =
               [decryptionContexts EXCEPT ![requestId].processed = TRUE]
         /\ completed' = [completed EXCEPT ![requestId] =
               Append(@, DecryptionCompleted(requestId, batchId,
                                             decoded[1], decoded[2]))]
         /\ UNCHANGED <<webvars, now, owner, providers, lastSubmissionTime,
                        lastDecryptionRequestTime, cooldownSeconds, paused,
                        currentBatchId, batchOpen, bonds, totalBonds, batches,
                        pendingCts, submitted>>

----------------------------------------------------------------------------
(* Events: what each call emits, as a sequence, from the state it starts in *)

Event(name, args) == [name |-> name, args |-> args]

OwnershipTransferred(previousOwner, newOwner) ==
    Event("OwnershipTransferred",
          [previousOwner |-> previousOwner, newOwner |-> newOwner])
ProviderAdded(provider) == Event("ProviderAdded", [provider |-> provider])
ProviderRemoved(provider) == Event("ProviderRemoved", [provider |-> provider])
CooldownSecondsChanged(oldCooldown, newCooldown) ==
    Event("CooldownSecondsChanged",
          [oldCooldown |-> oldCooldown, newCooldown |-> newCooldown])
Paused(account) == Event("Paused", [account |-> account])
Unpaused(account) == Event("Unpaused", [account |-> account])
BatchOpened(batchId) == Event("BatchOpened", [batchId |-> batchId])
BatchClosed(batchId) == Event("BatchClosed", [batchId |-> batchId])
BondSubmitted(provider, bondId, batchId) ==
    Event("BondSubmitted",
          [provider |-> provider, bondId |-> bondId, batchId |-> batchId])
DecryptionRequested(requestId, batchId) ==
    Event("DecryptionRequested",
          [requestId |-> requestId, batchId |-> batchId])

\* a reverted call emits nothing
Emits(e, event) == IF e # Ok THEN <<>> ELSE <<event>>

ConstructorEmits == <<OwnershipTransferred(ZeroAddress, Deployer)>>

TransferOwnershipEmits(sender, newOwner) ==
    Emits(TransferOwnershipError(sender, newOwner),
          OwnershipTransferred(owner, newOwner))

AddProviderEmits(sender, provider) ==
    Emits(onlyOwner(sender), ProviderAdded(provider))

RemoveProviderEmits(sender, provider) ==
    Emits(onlyOwner(sender), ProviderRemoved(provider))

SetCooldownSecondsEmits(sender, newCooldownSeconds) ==
    Emits(SetCooldownSecondsError(sender, newCooldownSeconds),
          CooldownSecondsChanged(cooldownSeconds, newCooldownSeconds))

PauseEmits(sender) == Emits(PauseError(sender), Paused(sender))

UnpauseEmits(sender) == Emits(UnpauseError(sender), Unpaused(sender))

\* faulty variant: BatchOpened is emitted before currentBatchId is advanced
OpenBatchEmits_OldId(sender) ==
    Emits(OpenBatchError(sender), BatchOpened(currentBatchId))

\* emitted after currentBatchId++
OpenBatchEmits(sender) ==
    Emits(OpenBatchError(sender), BatchOpened(currentBatchId + 1))

CloseBatchEmits(sender) ==
    Emits(CloseBatchError(sender), BatchClosed(currentBatchId))

\* emitted after totalBonds++
SubmitBondEmits(sender) ==
    Emits(SubmitBondError(sender),
          BondSubmitted(sender, totalBonds + 1, currentBatchId))

RequestBatchDecryptionEmits(sender, batchId) ==
    Emits(RequestBatchDecryptionError(sender, batchId),
          DecryptionRequested(NextRequestId, batchId))

MyCallbackEmits(requestId, cleartexts, proof) ==
    Emits(MyCallbackError(requestId, cleartexts, proof),
          Event("DecryptionCompleted",
                DecryptionCompleted(requestId,
                                    decryptionContexts[requestId].batchId,
                                    DecodeCleartexts(cleartexts)[1],
                                    DecodeCleartexts(cleartexts)[2])))

----------------------------------------------------------------------------
(* Environment *)

\* a later block
Tick(d) ==
    /\ now + d <= MaxTime
    /\ now' = now + d
    /\ UNCHANGED <<webvars, cvars, pendingCts, submitted, completed>>

\* what the oracle would reveal for an issued request
TrueCleartexts(r) == Decrypt(pendingCts[r])

\* cleartexts that are not the decryption of any request
Bogus == <<U32(0, 7), U32(0, 7)>>

\* proofs a caller of myCallback may supply: oracle signatures, or a forgery
ProofInputs == {Sign(r, TrueCleartexts(r)) : r \in Issued} \cup {Forged}

\* cleartexts supplied along with proof p: the signed ones, or others
CleartextInputs(p) == {p.cleartexts, Bogus}

\* Exploration with every administrative input, one provider candidate and
\* one bond amount
AdminProviders == {"bob"}
AdminAmounts == {U32(0, 100)}

Next ==
    \/ \E s \in Callers, newOwner \in Addr : TransferOwnership(s, newOwner)
    \/ \E s \in Callers, p \in AdminProviders : AddProvider(s, p)
    \/ \E s \in Callers, p \in AdminProviders : RemoveProvider(s, p)
    \/ \E s \in Callers, n \in CooldownInputs : SetCooldownSeconds(s, n)
    \/ \E s \in Callers : Pause(s)
    \/ \E s \in Callers : Unpause(s)
    \/ \E s \in Callers : OpenBatch(s)
    \/ \E s \in Callers : CloseBatch(s)
    \/ \E s \in Callers, a \in AdminAmounts, m \in Maturities :
          SubmitBond(s, a, m)
    \/ \E s \in Callers, b \in 0..(MaxBatches + 1) :
          RequestBatchDecryption(s, b)
    \/ \E s \in Callers, r \in ReqIds, p \in ProofInputs :
          \E c \in CleartextInputs(p) : MyCallback(s, r, c, p)
    \/ \E d \in Ticks : Tick(d)

Spec == Init /\ [][Next]_vars

\* Exploration with every provider and every bond amount, under the
\* deployer's ownership and the initial cooldown
NextBonds ==
    \/ \E s \in Callers, p \in Callers : AddProvider(s, p)
    \/ \E s \in Callers, p \in Callers : RemoveProvider(s, p)
    \/ \E s \in Callers : Pause(s)
    \/ \E s \in Callers : Unpause(s)
    \/ \E s \in Callers : OpenBatch(s)
    \/ \E s \in Callers : CloseBatch(s)
    \/ \E s \in Callers, a \in Amounts, m \in Maturities :
          SubmitBond(s, a, m)
    \/ \E s \in Callers, b \in 0..(MaxBatches + 1) :
          RequestBatchDecryption(s, b)
    \/ \E s \in Callers, r \in ReqIds, p \in ProofInputs :
          \E c \in CleartextInputs(p) : MyCallback(s, r, c, p)
    \/ \E d \in Ticks : Tick(d)

SpecBonds == Init /\ [][NextBonds]_vars

\* Exploration in which a test harness also overwrites batch storage
TamperTotals == {Zero32, U32(0, 100)}
TamperCounts == {0, 1}

Tamper(batchId, total, count) ==
    /\ batches[batchId].finalized
    /\ <<total, count>> # <<batches[batchId].totalEncryptedAmount,
                            batches[batchId].bondCount>>
    /\ batches' = [batches EXCEPT ![batchId].totalEncryptedAmount = total,
                                  ![batchId].bondCount = count]
    /\ UNCHANGED <<webvars, now, owner, providers, lastSubmissionTime,
                   lastDecryptionRequestTime, cooldownSeconds, paused,
                   currentBatchId, batchOpen, decryptionContexts, bonds,
                   totalBonds, pendingCts, submitted, completed>>

NextTamper ==
    \/ \E s \in Callers, p \in AdminProviders : AddProvider(s, p)
    \/ \E s \in Callers : OpenBatch(s)
    \/ \E s \in Callers : CloseBatch(s)
    \/ \E s \in Callers, a \in AdminAmounts, m \in Maturities :
          SubmitBond(s, a, m)
    \/ \E s \in Callers, b \in 0..(MaxBatches + 1) :
          RequestBatchDecryption(s, b)
    \/ \E s \in Callers, r \in ReqIds, p \in ProofInputs :
          \E c \in CleartextInputs(p) : MyCallback(s, r, c, p)
    \/ \E d \in Ticks : Tick(d)
    \/ \E b \in 1..MaxBatches, t \in TamperTotals, n \in TamperCounts :
          Tamper(b, t, n)

SpecTamper == Init /\ [][NextTamper]_vars

\* Exploration of access control alone, with every address as an argument
NextAdmin ==
    \/ \E s \in Callers, newOwner \in Addr : TransferOwnership(s, newOwner)
    \/ \E s \in Callers, p \in Addr : AddProvider(s, p)
    \/ \E s \in Callers, p \in Addr : RemoveProvider(s, p)
    \/ \E s \in Callers, n \in CooldownInputs : SetCooldownSeconds(s, n)
    \/ \E s \in Callers : Pause(s)
    \/ \E s \in Callers : Unpause(s)
    \/ \E d \in Ticks : Tick(d)

SpecAdmin == Init /\ [][NextAdmin]_vars

----------------------------------------------------------------------------
(* Front end: loadBonds, createBond, investInBond *)

\* the contract state, which the front-end calls modelled here do not touch
contractVars == <<cvars, now, pendingCts, submitted, completed>>

RECURSIVE InsertByMaturity(_, _)
InsertByMaturity(bond, list) ==
    IF list = <<>> THEN <<bond>>
    ELSE IF Head(list).maturityDate - bond.maturityDate > 0
         THEN <<bond>> \o list
         ELSE <<Head(list)>> \o InsertByMaturity(bond, Tail(list))

RECURSIVE SortByMaturity(_)
\* list.sort((a, b) => b.maturityDate - a.maturityDate), on a list read in
\* reverse so that equal dates keep their order
SortByMaturity(list) ==
    IF list = <<>> THEN <<>>
    ELSE InsertByMaturity(list[Len(list)],
                          SortByMaturity(SubSeq(list, 1, Len(list) - 1)))

\* the ids listed under "bond_keys" in store d
StoredKeys(d) ==
    IF Length(d[KeysKey]) > 0
    THEN JSONParseKeys(ToUtf8String(d[KeysKey])) ELSE <<>>

\* the SocialBond loadBonds builds for a listed key
LoadedBond(d, key) ==
    LET bondData == JSONParse(ToUtf8String(d[BondKey(key)]))
    IN  [id |-> key,
         name |-> bondData.name,
         issuer |-> bondData.issuer,
         targetAmount |-> bondData.targetAmount,
         currentRaised |-> bondData.currentRaised,
         impactCategory |-> bondData.impactCategory,
         maturityDate |-> bondData.maturityDate,
         status |-> IF bondData.status = "" THEN "active"
                    ELSE bondData.status,
         encryptedDetails |-> bondData.encryptedDetails]

RECURSIVE LoadList(_, _)
LoadList(d, keys) ==
    IF keys = <<>> THEN <<>>
    ELSE (IF Length(d[BondKey(Head(keys))]) > 0
          THEN <<LoadedBond(d, Head(keys))>> ELSE <<>>)
         \o LoadList(d, Tail(keys))

\* the list loadBonds hands to setBonds when the store is d
LoadBonds(d) == SortByMaturity(LoadList(d, StoredKeys(d)))

\* a call that returns early or throws before it writes
Abandon == UNCHANGED vars

\* createBond up to its first write: the bond record is stored
CreateBond(c, targetAmount, isConnected, signer) ==
    /\ calls[c].pc = "idle"
    /\ ledger.taken < MaxCreations
    /\ IF ~isConnected \/ ~signer THEN Abandon
       ELSE LET bondId == ledger.taken + 1
                bondData ==
                    [name |-> "bond",
                     issuer |-> c,
                     targetAmount |-> FHEEncryptNumber(targetAmount),
                     currentRaised |-> FHEEncryptNumber(0),
                     impactCategory |-> "Education",
                     maturityDate |-> WebMaturity + bondId,
                     status |-> "active",
                     encryptedDetails |-> ""]
            IN  /\ data' = SetData(BondKey(bondId),
                                   ToUtf8Bytes(JSONStringify(bondData)))
                /\ calls' = [calls EXCEPT ![c].pc = "createBond:getData",
                                          ![c].bondId = bondId]
                /\ ledger' = [ledger EXCEPT !.taken = bondId,
                                            !.original[bondId] = bondData]
                /\ UNCHANGED contractVars

\* createBond reads "bond_keys" and appends its id to the list it read
CreateBondGetKeys(c) ==
    /\ calls[c].pc = "createBond:getData"
    /\ calls' = [calls EXCEPT
                    ![c].pc = "createBond:setData",
                    ![c].pending = Append(StoredKeys(data), calls[c].bondId)]
    /\ UNCHANGED <<contractVars, data, ledger>>

\* createBond writes the list back, reloads and ends; a rejected
\* transaction ends the call without the write
CreateBondSetKeys(c, accepted) ==
    /\ calls[c].pc = "createBond:setData"
    /\ IF accepted
       THEN /\ data' = SetData(KeysKey, ToUtf8Bytes(JSONStringifyKeys(
                                           calls[c].pending)))
            /\ ledger' = [ledger EXCEPT
                             !.created = Append(@, calls[c].bondId)]
            /\ calls' = [calls EXCEPT
                            ![c] = [Idle EXCEPT !.bonds = LoadBonds(data')]]
       ELSE /\ calls' = [calls EXCEPT
                            ![c] = [Idle EXCEPT !.bonds = calls[c].bonds]]
            /\ ledger' = [ledger EXCEPT !.failed = @ + 1]
            /\ UNCHANGED data
    /\ UNCHANGED contractVars

\* what stops investInBond before it writes
InvestInBondError(bondId, isConnected) ==
    FirstError(<<
        IF ~isConnected THEN "Please connect wallet first" ELSE Ok,
        IF Length(GetData(BondKey(bondId))) = 0
        THEN "Bond not found" ELSE Ok,
        IF Length(GetData(BondKey(bondId))) > 0
           /\ JSONParse(ToUtf8String(GetData(BondKey(bondId)))).status
                 # "active"
        THEN "Bond is not active" ELSE Ok>>)

\* investInBond up to its write: the record is read and the sum prepared
InvestInBond(c, bondId, amount, isConnected) ==
    /\ calls[c].pc = "idle"
    /\ ledger.started < MaxInvestments
    /\ IF InvestInBondError(bondId, isConnected) # Ok THEN Abandon
       ELSE LET bondData == JSONParse(ToUtf8String(GetData(BondKey(bondId))))
                currentRaised == FHEDecryptNumber(bondData.currentRaised)
                newRaised == Plus(currentRaised, amount)
                encryptedNewRaised == FHEEncryptNumber(newRaised)
                updatedBond == [bondData EXCEPT
                                   !.currentRaised = encryptedNewRaised]
            IN  /\ calls' = [calls EXCEPT ![c].pc = "investInBond:setData",
                                          ![c].bondId = bondId,
                                          ![c].amount = amount,
                                          ![c].pending = updatedBond]
                /\ ledger' = [ledger EXCEPT !.started = @ + 1]
                /\ UNCHANGED <<contractVars, data>>

\* investInBond writes the record back, reloads and ends; without a signer
\* or with a rejected transaction the call ends without the write
InvestInBondSetData(c, accepted) ==
    /\ calls[c].pc = "investInBond:setData"
    /\ IF accepted
       THEN /\ data' = SetData(BondKey(calls[c].bondId),
                               ToUtf8Bytes(JSONStringify(calls[c].pending)))
            /\ ledger' = [ledger EXCEPT
                             !.invested[calls[c].bondId] = @ + calls[c].amount]
            /\ calls' = [calls EXCEPT
                            ![c] = [Idle EXCEPT !.bonds = LoadBonds(data')]]
       ELSE /\ calls' = [calls EXCEPT
                            ![c] = [Idle EXCEPT !.bonds = calls[c].bonds]]
            /\ ledger' = [ledger EXCEPT !.failed = @ + 1]
            /\ UNCHANGED data
    /\ UNCHANGED contractVars

NextWeb ==
    \/ \E c \in Clients, t \in WebTargets, k \in BOOLEAN, g \in BOOLEAN :
          CreateBond(c, t, k, g)
    \/ \E c \in Clients : CreateBondGetKeys(c)
    \/ \E c \in Clients, ok \in BOOLEAN : CreateBondSetKeys(c, ok)
    \/ \E c \in Clients, id \in WebBondIds, a \in WebAmounts, k \in BOOLEAN :
          InvestInBond(c, id, a, k)
    \/ \E c \in Clients, ok \in BOOLEAN : InvestInBondSetData(c, ok)

SpecWeb == Init /\ [][NextWeb]_vars

----------------------------------------------------------------------------
(* Vocabulary of the properties *)

Processed(r) == decryptionContexts[r].processed

\* a request that was issued and has not been completed
Pending(r) == r \in Issued /\ ~Processed(r)

\* the committed batch still has the handles it had at request time
StateMatches(r) == BatchCts(decryptionContexts[r].batchId) = pendingCts[r]

\* the proof the oracle produces for request r
ValidProof(r) == Sign(r, TrueCleartexts(r))

\* some call of myCallback for request r
CallbackStep(r) ==
    \E s \in Callers, p \in ProofInputs :
        \E c \in CleartextInputs(p) : MyCallback(s, r, c, p)

\* some call of submitBond
SubmitStep ==
    \E s \in Callers, a \in Amounts, m \in Maturities : SubmitBond(s, a, m)

\* every (cleartexts, proof) pair a caller may supply
CallbackInputs ==
    {<<c, p>> : c \in {Bogus} \cup {q.cleartexts : q \in ProofInputs},
                p \in ProofInputs}

----------------------------------------------------------------------------
(* C1 *)

C1_Rejected ==
    \A r \in ReqIds : Processed(r) =>
        \A i \in CallbackInputs :
            MyCallbackError(r, i[1], i[2]) = "ReplayAttempt"

C1_AtMostOnce == \A r \in ReqIds : Len(completed[r]) <= 1

C1_Frozen ==
    \A r \in ReqIds : Processed(r) =>
        /\ decryptionContexts'[r] = decryptionContexts[r]
        /\ completed'[r] = completed[r]
        /\ CallbackStep(r) => UNCHANGED vars

\* C1: once a callback for request r has succeeded, every later callback for
\* r raises ReplayAttempt whatever cleartexts and proof it carries, r's
\* context and the rest of the state stay as they are, and DecryptionCompleted
\* is emitted at most once per request id.
C1_ReplayProtection ==
    /\ [](C1_Rejected /\ C1_AtMostOnce)
    /\ [][C1_Frozen]_vars

\* a request has been completed while another one is still pending
C1_Witness ==
    \E r, q \in Issued :
        /\ Processed(r) /\ Len(completed[r]) = 1
        /\ Pending(q)

----------------------------------------------------------------------------
(* C2 *)

C2_Rejected ==
    \A r \in ReqIds : (Pending(r) /\ StateMatches(r)) =>
        \A i \in CallbackInputs :
            ~CheckSignatures(r, i[1], i[2]) =>
                MyCallbackError(r, i[1], i[2]) = "InvalidProof"

C2_NoEffect ==
    \A r \in ReqIds :
        (/\ Pending(r) /\ StateMatches(r)
         /\ (Processed(r)' \/ completed' # completed))
        => \A s \in Callers, i \in CallbackInputs :
              MyCallback(s, r, i[1], i[2]) => CheckSignatures(r, i[1], i[2])

\* C2: for a pending request whose committed state still matches, a callback
\* whose proof does not authenticate the supplied cleartexts raises
\* InvalidProof, leaves processed false and emits no DecryptionCompleted.
C2_InvalidProof ==
    /\ []C2_Rejected
    /\ [][C2_NoEffect]_vars

\* a pending request whose batch is unchanged, with a proof the oracle signed
\* for another request at hand
C2_Witness ==
    \E r, q \in Issued :
        /\ r # q
        /\ Pending(r) /\ StateMatches(r)
        /\ ~CheckSignatures(r, TrueCleartexts(r), ValidProof(q))

----------------------------------------------------------------------------
(* C3 *)

C3_Rejected ==
    \A r \in ReqIds : (Pending(r) /\ ~StateMatches(r)) =>
        \A i \in CallbackInputs :
            MyCallbackError(r, i[1], i[2]) = "StateMismatch"

C3_StaysUnprocessed ==
    \A r \in ReqIds : (Pending(r) /\ ~StateMatches(r)) => ~Processed(r)'

\* C3: when the total-amount handle or the bond count of the batch a pending
\* request targets differs from what it was at request time, a callback
\* raises StateMismatch even with the oracle's proof, and processed stays
\* false.
C3_StateMismatch ==
    /\ []C3_Rejected
    /\ [][C3_StaysUnprocessed]_vars

\* a pending request whose batch kept its total but not its bond count
C3_Witness ==
    \E r \in Issued :
        /\ Pending(r)
        /\ BatchCts(decryptionContexts[r].batchId)[1] = pendingCts[r][1]
        /\ BatchCts(decryptionContexts[r].batchId)[2] # pendingCts[r][2]

----------------------------------------------------------------------------
(* C4 *)

C4_Completable ==
    \A r \in ReqIds : Pending(r) =>
        MyCallbackError(r, TrueCleartexts(r), ValidProof(r)) = Ok

C4_OnlyCallbackCompletes ==
    \A r \in ReqIds :
        (Processed(r)' # Processed(r)) => (Pending(r) /\ CallbackStep(r))

\* C4: a pending request stays completable: in every reachable state a
\* callback carrying the oracle's proof would succeed, whoever sends it and
\* whatever ran since the request; and its processed flag changes only in a
\* myCallback step for it, so without a callback it stays false.
C4_StaysCompletable ==
    /\ []C4_Completable
    /\ [][C4_OnlyCallbackCompletes]_vars

\* a request still pending after a pause, an ownership transfer, a cooldown
\* change, and the opening of a later batch with a submission
C4_Witness ==
    \E r \in Issued :
        /\ Pending(r)
        /\ paused
        /\ owner # Deployer
        /\ cooldownSeconds # InitialCooldown
        /\ currentBatchId > decryptionContexts[r].batchId
        /\ batches[currentBatchId].bondCount > 0

----------------------------------------------------------------------------
(* C5 *)

\* the owner calls while unpaused and outside the decryption cooldown
C5_Admitted(s) ==
    /\ s = owner
    /\ ~paused
    /\ now >= lastDecryptionRequestTime[s] + cooldownSeconds

C5_BadBatch(b) ==
    \/ b = 0
    \/ b > currentBatchId
    \/ ~batches[b].finalized

C5_Rejected ==
    \A s \in Callers, b \in 0..(MaxBatches + 1) :
        (C5_Admitted(s) /\ C5_BadBatch(b)) =>
            RequestBatchDecryptionError(s, b) = "InvalidBatch"

C5_NoEffect ==
    \A s \in Callers, b \in 0..(MaxBatches + 1) :
        (C5_Admitted(s) /\ C5_BadBatch(b) /\ RequestBatchDecryption(s, b)) =>
            UNCHANGED <<decryptionContexts, lastDecryptionRequestTime,
                        pendingCts>>

\* C5: requestBatchDecryption(batchId) by the owner, unpaused and with the
\* decryption cooldown elapsed, raises InvalidBatch when batchId is 0, is
\* greater than currentBatchId, or names a batch that is not finalized (the
\* open batch included); it creates no context and stamps no cooldown.
C5_InvalidBatch ==
    /\ []C5_Rejected
    /\ [][C5_NoEffect]_vars

\* the owner may request, batch 1 is finalized and batch 2 is the open batch
C5_Witness ==
    /\ owner \in Callers /\ C5_Admitted(owner)
    /\ currentBatchId = 2 /\ batchOpen
    /\ batches[1].finalized /\ ~batches[2].finalized
    /\ batches[2].bondCount > 0

----------------------------------------------------------------------------
(* C6 *)

C6_OnlySubmitWrites ==
    \A b \in BatchIds :
        (\/ batches'[b].totalEncryptedAmount # batches[b].totalEncryptedAmount
         \/ batches'[b].bondCount # batches[b].bondCount)
        => (batchOpen /\ b = currentBatchId /\ SubmitStep)

C6_FinalizedFrozen ==
    \A b \in BatchIds : batches[b].finalized => batches'[b] = batches[b]

\* C6: a batch's total and bond count change only in a successful submitBond
\* made while that batch is the open one, and once closeBatch has finalized a
\* batch its total, count and finalized flag never change again.
C6_WriteThenFreeze == [][C6_OnlySubmitWrites /\ C6_FinalizedFrozen]_vars

\* batch 1 was finalized with a bond in it, was requested and completed, and
\* batch 2 has since received a bond
C6_Witness ==
    /\ batches[1].finalized /\ batches[1].bondCount = 1
    /\ currentBatchId = 2 /\ batches[2].bondCount = 1
    /\ \E r \in Issued : Processed(r) /\ decryptionContexts[r].batchId = 1

----------------------------------------------------------------------------
(* C7 *)

RECURSIVE Sum32(_)
\* the sum modulo 2^32 of a sequence of 32-bit amounts
Sum32(amounts) ==
    IF amounts = <<>> THEN Zero32
    ELSE LET n == Len(amounts)
             rest == SubSeq(amounts, 1, n - 1)
             s == Sum32(rest)
             l == s.lo + amounts[n].lo
             h == s.hi + amounts[n].hi + (IF l >= HalfWord THEN 1 ELSE 0)
         IN  U32(IF h >= HalfWord THEN h - HalfWord ELSE h,
                 IF l >= HalfWord THEN l - HalfWord ELSE l)

C7_Accounted ==
    \A b \in BatchIds :
        /\ batches[b].bondCount = Len(submitted[b])
        /\ batches[b].totalEncryptedAmount = Sum32(submitted[b])

C7_OneBondPerCall ==
    \A a \in Amounts :
        (\E s \in Callers, m \in Maturities : SubmitBond(s, a, m)) =>
            /\ batches'[currentBatchId].bondCount =
                  batches[currentBatchId].bondCount + 1
            /\ submitted'[currentBatchId] =
                  Append(submitted[currentBatchId], a)
            /\ \A b \in BatchIds \ {currentBatchId} : batches'[b] = batches[b]

\* C7: in every reachable state each batch's bond count is the number of
\* successful submitBond calls made while it was open and its total is the
\* sum modulo 2^32 of exactly those amounts; a successful submitBond adds one
\* bond and its amount to the open batch and nothing to any other batch.
C7_AggregateAccounting ==
    /\ []C7_Accounted
    /\ [][C7_OneBondPerCall]_vars

\* two bonds in one batch whose amounts sum past 2^32
C7_Witness ==
    \E b \in BatchIds :
        /\ submitted[b] = <<U32(0, 250), U32(65535, 65436)>>
        /\ batches[b].totalEncryptedAmount = U32(0, 150)

----------------------------------------------------------------------------
(* C8 *)

\* allocated batches that are not finalized
OpenBatches == {b \in 1..currentBatchId : ~batches[b].finalized}

C8_Lifecycle ==
    /\ OpenBatches = IF batchOpen THEN {currentBatchId} ELSE {}
    /\ batchOpen => currentBatchId >= 1
    /\ \A b \in 1..(currentBatchId - 1) : batches[b].finalized
    /\ \A b \in BatchIds :
          (b = 0 \/ b > currentBatchId) => ~batches[b].finalized

C8_Sequential ==
    /\ (\E s \in Callers : OpenBatch(s)) =>
           (currentBatchId' = currentBatchId + 1 /\ batchOpen')
    /\ currentBatchId' # currentBatchId => \E s \in Callers : OpenBatch(s)
    /\ \A b \in BatchIds : batches[b].finalized => batches'[b].finalized

\* C8: at most one batch is open at a time; the open batch, if any, is batch
\* currentBatchId (>= 1), unfinalized, with batchOpen set; every earlier batch
\* is finalized; batch ids are allocated 1, 2, 3, ... by successful openBatch
\* calls only; and a finalized batch is never unfinalized again.
C8_BatchLifecycle ==
    /\ []C8_Lifecycle
    /\ [][C8_Sequential]_vars

\* batch 1 closed, batch 2 opened and closed
C8_Witness ==
    /\ currentBatchId = 2 /\ ~batchOpen
    /\ batches[1].finalized /\ batches[2].finalized

----------------------------------------------------------------------------
(* C9 *)

C9_Rejected ==
    \A s \in Callers : (s = owner /\ ~paused) =>
        /\ batchOpen => OpenBatchError(s) = "BatchAlreadyOpen"
        /\ ~batchOpen => CloseBatchError(s) = "BatchNotOpen"

C9_NoEffect ==
    \A s \in Callers : (s = owner /\ ~paused) =>
        /\ (batchOpen /\ OpenBatch(s)) =>
               UNCHANGED <<currentBatchId, batchOpen, batches>>
        /\ (~batchOpen /\ CloseBatch(s)) =>
               UNCHANGED <<currentBatchId, batchOpen, batches>>

\* C9: called by the owner while unpaused, openBatch with a batch open raises
\* BatchAlreadyOpen and closeBatch with no batch open raises BatchNotOpen, and
\* neither changes currentBatchId, batchOpen or any batch record.
C9_LifecycleErrors ==
    /\ []C9_Rejected
    /\ [][C9_NoEffect]_vars

\* a second owner, unpaused, with batch 2 open after batch 1 was closed
C9_Witness ==
    /\ owner \in Callers \ {Deployer} /\ ~paused
    /\ batchOpen /\ currentBatchId = 2 /\ batches[1].finalized

----------------------------------------------------------------------------
(* C10 *)

\* C10 as stated: a non-provider gets NotProvider, and a registered provider
\* with no batch open gets BatchNotOpen.
C10_AsStated ==
    \A s \in Callers :
        /\ ~providers[s] => SubmitBondError(s) = "NotProvider"
        /\ (providers[s] /\ ~batchOpen) => SubmitBondError(s) = "BatchNotOpen"

C10_Rejected ==
    \A s \in Callers :
        /\ ~providers[s] => SubmitBondError(s) = "NotProvider"
        /\ (/\ providers[s] /\ ~batchOpen
            /\ ~paused
            /\ now >= lastSubmissionTime[s] + cooldownSeconds)
           => SubmitBondError(s) = "BatchNotOpen"

C10_NoEffect ==
    \A s \in Callers :
        (/\ ~providers[s] \/ ~batchOpen
         /\ \E a \in Amounts, m \in Maturities : SubmitBond(s, a, m))
        => UNCHANGED <<bonds, totalBonds, batches, lastSubmissionTime>>

\* C10 (amended): submitBond by an address that is not a registered provider
\* raises NotProvider; by a registered provider while the contract is not
\* paused, the provider's submission cooldown has elapsed and no batch is open
\* it raises BatchNotOpen; in both cases no bond is recorded and no batch
\* total, count or cooldown stamp changes.
C10_SubmitErrors ==
    /\ []C10_Rejected
    /\ [][C10_NoEffect]_vars

\* bob submitted a bond and was then removed; alice is a provider outside her
\* cooldown, the contract is unpaused and no batch is open
C10_Witness ==
    /\ ~providers["bob"] /\ lastSubmissionTime["bob"] > 0
    /\ providers["alice"] /\ ~batchOpen /\ ~paused
    /\ now >= lastSubmissionTime["alice"] + cooldownSeconds
    /\ totalBonds >= 1

----------------------------------------------------------------------------
(* C11 *)

\* a successful submitBond by p
SubmitSucceeds(p) ==
    /\ totalBonds' = totalBonds + 1
    /\ \E a \in Amounts, m \in Maturities : SubmitBond(p, a, m)

\* p has submitted and the cooldown since its last submission is running
Throttled(p) ==
    /\ lastSubmissionTime[p] > 0
    /\ now < lastSubmissionTime[p] + cooldownSeconds

\* C11 as stated: after p's successful submitBond at time t, any submitBond
\* by p before t + cooldownSeconds raises CooldownActive.
C11_AsStated ==
    \A p \in Callers : Throttled(p) => SubmitBondError(p) = "CooldownActive"

\* the stamp of p is the time of p's last successful submitBond
C11_Stamped ==
    /\ \A p \in Callers :
          SubmitSucceeds(p) =>
              /\ lastSubmissionTime'[p] = now
              /\ \A q \in Addr \ {p} :
                    /\ lastSubmissionTime'[q] = lastSubmissionTime[q]
                    /\ checkSubmissionCooldown(q)' = checkSubmissionCooldown(q)
    /\ lastSubmissionTime' # lastSubmissionTime =>
          \E p \in Callers : SubmitSucceeds(p)

C11_Throttle ==
    \A p \in Callers :
        /\ (Throttled(p) /\ providers[p] /\ ~paused) =>
               SubmitBondError(p) = "CooldownActive"
        /\ now >= lastSubmissionTime[p] + cooldownSeconds =>
               /\ checkSubmissionCooldown(p) = Ok
               /\ SubmitBondError(p) # "CooldownActive"

\* C11 (amended): after a successful submitBond by p at time t, a submitBond
\* by p before t + cooldownSeconds, made while p is still a registered
\* provider and the contract is not paused, raises CooldownActive; one at or
\* after t + cooldownSeconds is not rejected by the cooldown; and a
\* submission by p changes no other address's stamp or cooldown verdict.
C11_SubmissionThrottle ==
    /\ []C11_Throttle
    /\ [][C11_Stamped]_vars

\* alice has just submitted and is throttled, while bob, who submitted one
\* cooldown earlier, is admitted again
C11_Witness ==
    /\ providers["alice"] /\ providers["bob"] /\ batchOpen /\ ~paused
    /\ lastSubmissionTime["bob"] > 0
    /\ now = lastSubmissionTime["bob"] + cooldownSeconds
    /\ lastSubmissionTime["alice"] = now
    /\ SubmitBondError("alice") = "CooldownActive"
    /\ SubmitBondError("bob") = Ok

----------------------------------------------------------------------------
(* C12 *)

Errors ==
    {"NotOwner", "NotProvider", "PausedState", "BatchNotOpen",
     "BatchAlreadyOpen", "InvalidBatch", "CooldownActive", "InvalidCooldown",
     "ReplayAttempt", "StateMismatch", "InvalidProof"}

\* the outcome of every call a caller can make in the current state
Outcomes ==
    {onlyOwner(s) : s \in Callers}
    \cup {TransferOwnershipError(s, a) : s \in Callers, a \in Addr}
    \cup {UnpauseError(s) : s \in Callers}
    \cup {SetCooldownSecondsError(s, n) : s \in Callers, n \in CooldownInputs}
    \cup {PauseError(s) : s \in Callers}
    \cup {OpenBatchError(s) : s \in Callers}
    \cup {CloseBatchError(s) : s \in Callers}
    \cup {SubmitBondError(s) : s \in Callers}
    \cup {RequestBatchDecryptionError(s, b) :
              s \in Callers, b \in 0..(MaxBatches + 1)}
    \cup {MyCallbackError(r, i[1], i[2]) : r \in ReqIds, i \in CallbackInputs}

C12_KnownErrors == Outcomes \subseteq Errors \cup {Ok}

\* a call that raises error e and takes step act changes nothing
Atomic(e, act) == e # Ok => (act => UNCHANGED vars)

C12_RejectedCalls ==
    /\ \A s \in Callers, a \in Addr :
          /\ Atomic(TransferOwnershipError(s, a), TransferOwnership(s, a))
          /\ Atomic(onlyOwner(s), AddProvider(s, a))
          /\ Atomic(onlyOwner(s), RemoveProvider(s, a))
    /\ \A s \in Callers, n \in CooldownInputs :
          Atomic(SetCooldownSecondsError(s, n), SetCooldownSeconds(s, n))
    /\ \A s \in Callers :
          /\ Atomic(PauseError(s), Pause(s))
          /\ Atomic(UnpauseError(s), Unpause(s))
          /\ Atomic(OpenBatchError(s), OpenBatch(s))
          /\ Atomic(CloseBatchError(s), CloseBatch(s))
    /\ \A s \in Callers, a \in Amounts, m \in Maturities :
          Atomic(SubmitBondError(s), SubmitBond(s, a, m))
    /\ \A s \in Callers, b \in 0..(MaxBatches + 1) :
          Atomic(RequestBatchDecryptionError(s, b),
                 RequestBatchDecryption(s, b))
    /\ \A s \in Callers, r \in ReqIds, i \in CallbackInputs :
          Atomic(MyCallbackError(r, i[1], i[2]), MyCallback(s, r, i[1], i[2]))

\* holds of a step that changes nothing; otherwise no rejected call took it
C12_NoPartialWrite == UNCHANGED vars \/ C12_RejectedCalls

\* C12: a call rejected with any of the eleven errors leaves the whole
\* contract state as it was (owner, providers, paused, cooldownSeconds,
\* currentBatchId, batchOpen, totalBonds, bonds, batches, both cooldown
\* stamps, decryption contexts) and emits no DecryptionCompleted; and no call
\* raises an error outside those eleven.
C12_AtomicFailure ==
    /\ []C12_KnownErrors
    /\ [][C12_NoPartialWrite]_vars

\* a state in which calls fail with eight different errors: a batch is open,
\* a provider is inside its cooldown, one request is processed and another
\* is pending
C12_Witness ==
    /\ {"NotOwner", "NotProvider", "CooldownActive", "BatchAlreadyOpen",
        "InvalidCooldown", "ReplayAttempt", "StateMismatch", "InvalidProof"}
          \subseteq Outcomes
    /\ \E r, q \in Issued : Processed(r) /\ Pending(q)

----------------------------------------------------------------------------
(* C13 *)

C13_PausedRejects ==
    paused =>
        \A s \in Callers :
            /\ s = owner =>
                  /\ OpenBatchError(s) = "PausedState"
                  /\ CloseBatchError(s) = "PausedState"
                  /\ \A b \in 0..(MaxBatches + 1) :
                        RequestBatchDecryptionError(s, b) = "PausedState"
            /\ providers[s] => SubmitBondError(s) = "PausedState"

C13_AdminAdmitted ==
    paused =>
        \A s \in Callers : s = owner =>
            /\ onlyOwner(s) = Ok
            /\ \A n \in CooldownInputs \ {0} :
                  SetCooldownSecondsError(s, n) = Ok

C13_AdminSucceeds ==
    paused =>
        \A s \in Callers : s = owner =>
            /\ \A a \in Addr :
                  /\ TransferOwnership(s, a) => owner' = a
                  /\ AddProvider(s, a) => providers'[a]
                  /\ RemoveProvider(s, a) => ~providers'[a]
            /\ \A n \in CooldownInputs \ {0} :
                  SetCooldownSeconds(s, n) => cooldownSeconds' = n
            /\ Unpause(s) => ~paused'

C13_BatchesPreserved ==
    (paused \/ paused') => UNCHANGED <<currentBatchId, batchOpen, batches>>

C13_OpenBatchAccepts ==
    \A s \in Callers :
        (/\ ~paused /\ batchOpen /\ providers[s]
         /\ now >= lastSubmissionTime[s] + cooldownSeconds)
        => SubmitBondError(s) = Ok

\* C13: while paused, openBatch, closeBatch and requestBatchDecryption by the
\* owner and submitBond by a provider raise PausedState, whereas the owner's
\* transferOwnership, addProvider, removeProvider, setCooldownSeconds (n > 0)
\* and unpause take effect; a step that starts or ends paused changes neither
\* currentBatchId, batchOpen nor any batch record, and an open batch accepts
\* a provider's submission whenever the contract is not paused.
C13_PauseGating ==
    /\ [](C13_PausedRejects /\ C13_AdminAdmitted /\ C13_OpenBatchAccepts)
    /\ [][C13_AdminSucceeds /\ C13_BatchesPreserved]_vars

\* paused with a batch open that already holds a bond, while its provider's
\* cooldown has elapsed: only the pause stands between it and a submission
C13_Witness ==
    /\ paused /\ batchOpen /\ owner \in Callers
    /\ batches[currentBatchId].bondCount >= 1
    /\ \E s \in Callers :
          /\ providers[s]
          /\ lastSubmissionTime[s] > 0
          /\ now >= lastSubmissionTime[s] + cooldownSeconds

----------------------------------------------------------------------------
(* C14 *)

\* C14 as stated: while paused is true, no bond, batch, cooldown-stamp or
\* DecryptionContext state (a context's processed flag included) changes.
C14_AsStated ==
    [][paused => UNCHANGED <<bonds, totalBonds, batches, lastSubmissionTime,
                             lastDecryptionRequestTime, decryptionContexts>>
      ]_vars

C14_GatedEntryPoints ==
    paused =>
        \A s \in Callers :
            /\ OpenBatchError(s) # Ok
            /\ CloseBatchError(s) # Ok
            /\ SubmitBondError(s) # Ok
            /\ \A b \in 0..(MaxBatches + 1) :
                  RequestBatchDecryptionError(s, b) # Ok

C14_CallbackNotGated ==
    \A r \in ReqIds : Pending(r) =>
        MyCallbackError(r, TrueCleartexts(r), ValidProof(r)) = Ok

C14_OnlyCallbackWrites ==
    paused =>
        /\ UNCHANGED <<bonds, totalBonds, batches, currentBatchId, batchOpen,
                       lastSubmissionTime, lastDecryptionRequestTime>>
        /\ \A r \in ReqIds :
              decryptionContexts'[r] # decryptionContexts[r] =>
                  /\ Pending(r)
                  /\ decryptionContexts'[r] =
                        [decryptionContexts[r] EXCEPT !.processed = TRUE]
                  /\ CallbackStep(r)

\* C14 (amended): openBatch, closeBatch, submitBond and
\* requestBatchDecryption require the contract to be not paused, so while
\* paused no bond, batch or cooldown-stamp state changes and no
\* DecryptionContext is created or overwritten; myCallback is not gated by
\* the pause, and the one change possible while paused is a pending request's
\* processed flag being set by a successful callback.
C14_PausedFreeze ==
    /\ [](C14_GatedEntryPoints /\ C14_CallbackNotGated)
    /\ [][C14_OnlyCallbackWrites]_vars

\* paused with a request pending, a batch open and a provider outside its
\* cooldown
C14_Witness ==
    /\ paused /\ batchOpen /\ owner \in Callers
    /\ \E r \in Issued : Pending(r)
    /\ \E s \in Callers :
          providers[s] /\ now >= lastSubmissionTime[s] + cooldownSeconds

----------------------------------------------------------------------------
(* C15 *)

C15_Outcomes ==
    \A s \in Callers : s = owner =>
        /\ PauseError(s) = IF paused THEN "PausedState" ELSE Ok
        /\ UnpauseError(s) = Ok

C15_Effects ==
    \A s \in Callers : s = owner =>
        /\ Pause(s) => (paused' /\ (paused => UNCHANGED vars))
        /\ Unpause(s) => ~paused'

\* C15: pause() by the owner sets paused when the contract is not paused and
\* raises PausedState, changing nothing, when it already is; unpause() by the
\* owner is accepted whether paused or not and always leaves paused false.
C15_PauseUnpause ==
    /\ []C15_Outcomes
    /\ [][C15_Effects]_vars

\* paused under a second owner, with the cooldown changed and the zero
\* address registered as a provider
C15_Witness ==
    /\ paused /\ owner \in Callers \ {Deployer}
    /\ cooldownSeconds # InitialCooldown /\ providers[ZeroAddress]

----------------------------------------------------------------------------
(* C16 *)

C16_NotOwner ==
    \A s \in Callers : s # owner =>
        /\ \A a \in Addr : TransferOwnershipError(s, a) = "NotOwner"
        /\ onlyOwner(s) = "NotOwner"
        /\ \A n \in CooldownInputs :
              SetCooldownSecondsError(s, n) = "NotOwner"
        /\ PauseError(s) = "NotOwner"
        /\ UnpauseError(s) = "NotOwner"
        /\ OpenBatchError(s) = "NotOwner"
        /\ CloseBatchError(s) = "NotOwner"
        /\ \A b \in 0..(MaxBatches + 1) :
              RequestBatchDecryptionError(s, b) = "NotOwner"

\* some owner-only entry point called by s
OwnerOnlyStep(s) ==
    \/ \E a \in Addr : TransferOwnership(s, a)
    \/ \E a \in Addr : AddProvider(s, a)
    \/ \E a \in Addr : RemoveProvider(s, a)
    \/ \E n \in CooldownInputs : SetCooldownSeconds(s, n)
    \/ Pause(s)
    \/ Unpause(s)
    \/ OpenBatch(s)
    \/ CloseBatch(s)
    \/ \E b \in 0..(MaxBatches + 1) : RequestBatchDecryption(s, b)

C16_OnlyOwnerWrites ==
    (\/ owner' # owner
     \/ providers' # providers
     \/ cooldownSeconds' # cooldownSeconds
     \/ paused' # paused
     \/ currentBatchId' # currentBatchId
     \/ batchOpen' # batchOpen
     \/ \E b \in BatchIds : batches'[b].finalized # batches[b].finalized
     \/ lastDecryptionRequestTime' # lastDecryptionRequestTime)
    => \E s \in Callers : s = owner /\ OwnerOnlyStep(s)

\* C16: transferOwnership, addProvider, removeProvider, setCooldownSeconds,
\* pause, unpause, openBatch, closeBatch and requestBatchDecryption raise
\* NotOwner for every caller other than the current owner, whatever else
\* holds; and the owner, the provider registry, cooldownSeconds, paused,
\* currentBatchId, batchOpen and the finalized flags change only in a step
\* that is one of these calls made by the address that is owner before it.
C16_OwnerGating ==
    /\ []C16_NotOwner
    /\ [][C16_OnlyOwnerWrites]_vars

\* ownership has moved to a second address, which opened batch 2, changed
\* the cooldown and registered itself; the deployer is now a stranger
C16_Witness ==
    /\ owner \in Callers \ {Deployer}
    /\ onlyOwner(Deployer) = "NotOwner"
    /\ providers[owner] /\ cooldownSeconds # InitialCooldown
    /\ currentBatchId = 2 /\ batchOpen

----------------------------------------------------------------------------
(* C17 *)

C17_Accepted ==
    /\ owner \in Addr
    /\ Cardinality({a \in Addr : onlyOwner(a) = Ok}) = 1
    /\ \A s \in Callers, a \in Addr :
          s = owner => TransferOwnershipError(s, a) = Ok

\* every owner-only entry point rejects s with NotOwner
RejectedAsStranger(s) ==
    /\ \A a \in Addr : TransferOwnershipError(s, a) = "NotOwner"
    /\ onlyOwner(s) = "NotOwner"
    /\ \A n \in CooldownInputs : SetCooldownSecondsError(s, n) = "NotOwner"
    /\ PauseError(s) = "NotOwner"
    /\ UnpauseError(s) = "NotOwner"
    /\ OpenBatchError(s) = "NotOwner"
    /\ CloseBatchError(s) = "NotOwner"
    /\ \A b \in 0..(MaxBatches + 1) :
          RequestBatchDecryptionError(s, b) = "NotOwner"

C17_Transfers ==
    \A s \in Callers, a \in Addr :
        (s = owner /\ TransferOwnership(s, a)) =>
            /\ owner' = a
            /\ a # s => RejectedAsStranger(s)'
            /\ (onlyOwner(a) = Ok)'
            /\ UNCHANGED <<providers, lastSubmissionTime,
                           lastDecryptionRequestTime, cooldownSeconds, paused,
                           currentBatchId, batchOpen, decryptionContexts,
                           bonds, totalBonds, batches>>

\* C17: transferOwnership(newOwner) by the owner is accepted for every
\* newOwner, the zero address and the owner itself included, and sets owner
\* to newOwner; exactly one address passes the owner check at any time;
\* right after the transfer the previous owner, if different, gets NotOwner
\* from every owner-only entry point and newOwner passes the owner check;
\* and the transfer changes no provider, cooldown, pause, batch, bond or
\* decryption-context state.
C17_OwnershipTransfer ==
    /\ []C17_Accepted
    /\ [][C17_Transfers]_vars

\* ownership went to the zero address while a batch was open and a request
\* pending: no caller is owner any more, the rest of the state is in place
C17_Witness ==
    /\ owner = ZeroAddress
    /\ \A s \in Callers : RejectedAsStranger(s)
    /\ batchOpen /\ batches[currentBatchId].bondCount > 0
    /\ \E r \in Issued : Pending(r)

----------------------------------------------------------------------------
(* C18 *)

C18_Positive == cooldownSeconds >= 1

C18_Outcomes ==
    \A s \in Callers :
        /\ SetCooldownSecondsError(s, 0) # Ok
        /\ s = owner =>
              /\ SetCooldownSecondsError(s, 0) = "InvalidCooldown"
              /\ \A n \in CooldownInputs \ {0} :
                    SetCooldownSecondsError(s, n) = Ok

C18_Effects ==
    /\ \A s \in Callers :
          /\ SetCooldownSeconds(s, 0) => UNCHANGED cooldownSeconds
          /\ \A n \in CooldownInputs \ {0} :
                (s = owner /\ SetCooldownSeconds(s, n)) =>
                    cooldownSeconds' = n
    /\ cooldownSeconds' # cooldownSeconds =>
          \E s \in Callers, n \in CooldownInputs \ {0} :
              s = owner /\ SetCooldownSeconds(s, n)

----------------------------------------------------------------------------
(* C19 *)

\* request r targets batch 1, which received a bond of 100 and then one of 250
Scenario(r) ==
    /\ r \in Issued
    /\ decryptionContexts[r].batchId = 1
    /\ submitted[1] = <<U32(0, 100), U32(0, 250)>>

C19_Revealed ==
    \A r \in ReqIds : Scenario(r) =>
        /\ batches[1].finalized /\ batches[1].bondCount = 2
        /\ TrueCleartexts(r) = <<U32(0, 350), U32(0, 2)>>
        /\ Pending(r) =>
              MyCallbackError(r, TrueCleartexts(r), ValidProof(r)) = Ok
        /\ Processed(r) =>
              completed[r] =
                  <<DecryptionCompleted(r, 1, U32(0, 350), U32(0, 2))>>

C19_Completes ==
    \A r \in ReqIds, s \in Callers :
        (/\ Scenario(r) /\ Pending(r)
         /\ MyCallback(s, r, TrueCleartexts(r), ValidProof(r)))
        => /\ Processed(r)'
           /\ completed'[r] =
                 <<DecryptionCompleted(r, 1, U32(0, 350), U32(0, 2))>>

\* C19: when batch 1 was opened, received a bond of 100 and then a bond of
\* 250, was closed and requested for decryption, batch 1 has bondCount 2, the
\* oracle reveals 350 and 2, the callback with the oracle's proof succeeds,
\* and the DecryptionCompleted it emits carries that request id, batch id 1,
\* totalAmount 350 and bondCount 2.
C19_EndToEnd ==
    /\ []C19_Revealed
    /\ [][C19_Completes]_vars

\* the scenario has run to its end: one provider submitted both bonds, the
\* second one cooldown after the first, and the request is completed
C19_Witness ==
    \E r \in Issued :
        /\ Scenario(r) /\ Processed(r)
        /\ owner = Deployer /\ providers["bob"]
        /\ lastSubmissionTime["alice"] = 0
        /\ lastSubmissionTime["bob"] = FirstBlockTime + cooldownSeconds
        /\ completed[r][1].totalAmount = U32(0, 350)

----------------------------------------------------------------------------
(* C20 *)

\* the part of the contract state the claim says the events determine
View ==
    [owner |-> owner,
     providers |-> providers,
     cooldownSeconds |-> cooldownSeconds,
     paused |-> paused,
     currentBatchId |-> currentBatchId,
     batchOpen |-> batchOpen,
     bondCount |-> [b \in BatchIds |-> batches[b].bondCount],
     finalized |-> [b \in BatchIds |-> batches[b].finalized],
     totalBonds |-> totalBonds,
     requests |-> [r \in ReqIds |->
                     [batchId |-> decryptionContexts[r].batchId,
                      processed |-> decryptionContexts[r].processed]]]

\* what a reader of the log starts from: the declared initial values
ReplayStart ==
    [owner |-> ZeroAddress,
     providers |-> [a \in Addr |-> FALSE],
     cooldownSeconds |-> InitialCooldown,
     paused |-> FALSE,
     currentBatchId |-> 0,
     batchOpen |-> FALSE,
     bondCount |-> [b \in BatchIds |-> 0],
     finalized |-> [b \in BatchIds |-> FALSE],
     totalBonds |-> 0,
     requests |-> [r \in ReqIds |-> [batchId |-> 0, processed |-> FALSE]]]

\* the reader's state after one more event, from the event's fields alone
Replay(v, ev) ==
    LET a == ev.args IN
    CASE ev.name = "OwnershipTransferred" -> [v EXCEPT !.owner = a.newOwner]
      [] ev.name = "ProviderAdded" ->
            [v EXCEPT !.providers[a.provider] = TRUE]
      [] ev.name = "ProviderRemoved" ->
            [v EXCEPT !.providers[a.provider] = FALSE]
      [] ev.name = "CooldownSecondsChanged" ->
            [v EXCEPT !.cooldownSeconds = a.newCooldown]
      [] ev.name = "Paused" -> [v EXCEPT !.paused = TRUE]
      [] ev.name = "Unpaused" -> [v EXCEPT !.paused = FALSE]
      [] ev.name = "BatchOpened" ->
            [v EXCEPT !.currentBatchId = a.batchId,
                      !.batchOpen = TRUE,
                      !.bondCount[a.batchId] = 0,
                      !.finalized[a.batchId] = FALSE]
      [] ev.name = "BatchClosed" ->
            [v EXCEPT !.batchOpen = FALSE,
                      !.finalized[a.batchId] = TRUE]
      [] ev.name = "BondSubmitted" ->
            [v EXCEPT !.totalBonds = a.bondId,
                      !.bondCount[a.batchId] = @ + 1]
      [] ev.name = "DecryptionRequested" ->
            [v EXCEPT !.requests[a.requestId] =
                          [batchId |-> a.batchId, processed |-> FALSE]]
      [] ev.name = "DecryptionCompleted" ->
            [v EXCEPT !.requests[a.requestId].processed = TRUE]

RECURSIVE ReplayAll(_, _)
ReplayAll(v, evs) ==
    IF evs = <<>> THEN v
    ELSE ReplayAll(Replay(v, Head(evs)), Tail(evs))

\* a step of call act that emits evs moves the view as the replay of evs does
Tracks(act, evs) == act => View' = ReplayAll(View, evs)

C20_Calls ==
    /\ \A s \in Callers, a \in Addr :
          /\ Tracks(TransferOwnership(s, a), TransferOwnershipEmits(s, a))
          /\ Tracks(AddProvider(s, a), AddProviderEmits(s, a))
          /\ Tracks(RemoveProvider(s, a), RemoveProviderEmits(s, a))
    /\ \A s \in Callers, n \in CooldownInputs :
          Tracks(SetCooldownSeconds(s, n), SetCooldownSecondsEmits(s, n))
    /\ \A s \in Callers :
          /\ Tracks(Pause(s), PauseEmits(s))
          /\ Tracks(Unpause(s), UnpauseEmits(s))
          /\ Tracks(OpenBatch(s), OpenBatchEmits(s))
          /\ Tracks(CloseBatch(s), CloseBatchEmits(s))
    /\ \A s \in Callers, a \in Amounts, m \in Maturities :
          Tracks(SubmitBond(s, a, m), SubmitBondEmits(s))
    /\ \A s \in Callers, b \in 0..(MaxBatches + 1) :
          Tracks(RequestBatchDecryption(s, b),
                 RequestBatchDecryptionEmits(s, b))
    /\ \A s \in Callers, r \in ReqIds, i \in CallbackInputs :
          /\ Tracks(MyCallback(s, r, i[1], i[2]),
                    MyCallbackEmits(r, i[1], i[2]))
          /\ MyCallback(s, r, i[1], i[2]) =>
                completed'[r] =
                    completed[r] \o [k \in DOMAIN MyCallbackEmits(r, i[1], i[2])
                                      |-> MyCallbackEmits(r, i[1], i[2])[k].args]

\* a step that is no call leaves the view alone
C20_NoSilentChange ==
    View' # View =>
        \E s \in Callers :
            \/ OwnerOnlyStep(s)
            \/ SubmitSucceeds(s)
            \/ \E r \in ReqIds : CallbackStep(r)

C20_Step == UNCHANGED vars \/ (C20_Calls /\ C20_NoSilentChange)

\* C20: replaying the events emitted so far, starting from the declared
\* initial values, gives owner, the provider set, cooldownSeconds, paused,
\* currentBatchId, batchOpen, each batch's bondCount and finalized flag,
\* totalBonds, and each request's batchId and processed flag as they are in
\* the contract: this holds after the constructor's event, and every step
\* changes those fields exactly as the replay of the events it emits does.
C20_EventsDetermineState ==
    /\ (Init => View = ReplayAll(ReplayStart, ConstructorEmits))
    /\ [][C20_Step]_vars

\* a state every kind of event has led to: ownership moved, a provider was
\* added, the cooldown changed, the contract is paused, batch 1 was closed
\* with a bond in it, batch 2 is open, one request is completed and one is
\* pending
C20_Witness ==
    /\ View.owner # Deployer /\ View.providers["bob"]
    /\ View.cooldownSeconds # InitialCooldown /\ View.paused
    /\ View.currentBatchId = 2 /\ View.batchOpen
    /\ View.finalized[1] /\ View.bondCount[1] = 1 /\ View.totalBonds >= 1
    /\ \E r, q \in Issued : View.requests[r].processed /\ Pending(q)

----------------------------------------------------------------------------
(* C21 *)

\* the commitment recomputed for r's batch equals the one stored for r
HashMatches(r) ==
    HashCiphertexts(BatchCts(decryptionContexts[r].batchId))
        = decryptionContexts[r].stateHash

C21_Order ==
    \A r \in ReqIds, i \in CallbackInputs :
        LET e == MyCallbackError(r, i[1], i[2]) IN
        /\ Processed(r) => e = "ReplayAttempt"
        /\ (~Processed(r) /\ ~HashMatches(r)) => e = "StateMismatch"
        /\ e = "InvalidProof" <=>
              (/\ ~Processed(r) /\ HashMatches(r)
               /\ ~CheckSignatures(r, i[1], i[2]))
        /\ e = Ok <=>
              (/\ ~Processed(r) /\ HashMatches(r)
               /\ CheckSignatures(r, i[1], i[2]))

C21_MarkedLast ==
    \A r \in ReqIds :
        (~Processed(r) /\ Processed(r)') =>
            /\ HashMatches(r)
            /\ \E s \in Callers, i \in CallbackInputs :
                  /\ CheckSignatures(r, i[1], i[2])
                  /\ MyCallback(s, r, i[1], i[2])

\* C21: myCallback raises ReplayAttempt for a processed request whatever
\* the state hash and the proof are, StateMismatch for an unprocessed
\* request whose state hash differs whatever the proof is, and InvalidProof
\* exactly when the request is unprocessed, the hash matches and the proof
\* does not verify; processed becomes true only in a callback that passes
\* all three checks.
C21_CheckOrder ==
    /\ []C21_Order
    /\ [][C21_MarkedLast]_vars

\* one request is processed and another pending, both for a batch whose
\* stored aggregate no longer matches the commitment
C21_Witness ==
    \E r, q \in Issued :
        /\ Processed(r) /\ ~HashMatches(r)
        /\ Pending(q) /\ ~HashMatches(q)

----------------------------------------------------------------------------
(* C22 *)

\* some call of requestBatchDecryption
RequestStep ==
    \E s \in Callers, b \in 0..(MaxBatches + 1) : RequestBatchDecryption(s, b)

\* the contexts that exist are those of the issued request ids
C22_Created ==
    \A r \in ReqIds :
        /\ r \in Issued <=> decryptionContexts[r].stateHash # ZeroHash
        /\ r \notin Issued => decryptionContexts[r] = DefaultContext

C22_Lifecycle ==
    \A r \in ReqIds :
        /\ r \notin Issued =>
              (decryptionContexts'[r] # decryptionContexts[r] =>
                  /\ RequestStep
                  /\ r = NextRequestId /\ r \in Issued'
                  /\ ~decryptionContexts'[r].processed)
        /\ r \in Issued =>
              /\ r \in Issued'
              /\ decryptionContexts'[r].batchId =
                    decryptionContexts[r].batchId
              /\ decryptionContexts'[r].stateHash =
                    decryptionContexts[r].stateHash
              /\ Processed(r) => Processed(r)'
              /\ (~Processed(r) /\ Processed(r)') => CallbackStep(r)

\* C22: a decryption context comes into being only in a successful
\* requestBatchDecryption, under the request id the oracle returned and with
\* processed false; from then on its batchId and stateHash stay as stored,
\* processed goes from false to true only in a successful myCallback for
\* that id and never back, and the context is never reset to the default.
C22_ContextLifecycle ==
    /\ []C22_Created
    /\ [][C22_Lifecycle]_vars

\* two contexts for different batches, the older one completed
C22_Witness ==
    \E r, q \in Issued :
        /\ Processed(r) /\ decryptionContexts[r].batchId = 1
        /\ ~Processed(q) /\ decryptionContexts[q].batchId = 2

----------------------------------------------------------------------------
(* C23 *)

\* C23: every decryption context created by requestBatchDecryption names a
\* batch id between 1 and currentBatchId whose batch is finalized, and the
\* stateHash it stores is the commitment recomputed from that batch's total
\* and bond count as they are now; so under the contract's own operations
\* no callback for a requested context raises StateMismatch.
C23_ContextsMatch ==
    \A r \in Issued :
        LET b == decryptionContexts[r].batchId IN
        /\ b \in 1..currentBatchId
        /\ batches[b].finalized
        /\ decryptionContexts[r].stateHash = HashCiphertexts(BatchCts(b))
        /\ \A i \in CallbackInputs :
              MyCallbackError(r, i[1], i[2]) # "StateMismatch"

\* a context for batch 1 that still matches after batch 2 was opened and
\* received a bond
C23_Witness ==
    \E r \in Issued :
        /\ decryptionContexts[r].batchId = 1
        /\ batches[1].bondCount = 1
        /\ currentBatchId = 2 /\ batchOpen
        /\ batches[2].totalEncryptedAmount # batches[1].totalEncryptedAmount

----------------------------------------------------------------------------
(* C24 *)

\* ids 1..totalBonds hold bonds, the ids above hold nothing yet
C24_Allocated ==
    /\ totalBonds \in 0..MaxBonds
    /\ \A i \in BondIds : i > totalBonds => bonds[i] = DefaultBond

C24_Sequential ==
    /\ \A s \in Callers, a \in Amounts, m \in Maturities :
          (totalBonds' # totalBonds /\ SubmitBond(s, a, m)) =>
              /\ totalBonds' = totalBonds + 1
              /\ bonds'[totalBonds'] =
                    [encryptedAmount |-> a, encryptedMaturity |-> m]
    /\ totalBonds' # totalBonds =>
          (totalBonds' = totalBonds + 1 /\ SubmitStep)
    /\ bonds' # bonds => totalBonds' = totalBonds + 1
    /\ \A i \in BondIds : i <= totalBonds => bonds'[i] = bonds[i]

\* C24: each successful submitBond raises totalBonds by exactly 1 and stores
\* the submitted amount and maturity under the new totalBonds, so ids are
\* given out as 1, 2, 3, ... across batches; nothing else changes totalBonds
\* or a bond record, and a stored record is never modified or deleted.
C24_BondIds ==
    /\ []C24_Allocated
    /\ [][C24_Sequential]_vars

\* bond 1 went into batch 1 and bond 2, with another amount, into batch 2
C24_Witness ==
    /\ totalBonds = 2 /\ currentBatchId = 2
    /\ batches[1].bondCount = 1 /\ batches[2].bondCount = 1
    /\ bonds[1].encryptedAmount = submitted[1][1]
    /\ bonds[2].encryptedAmount = submitted[2][1]
    /\ bonds[1].encryptedAmount # bonds[2].encryptedAmount

----------------------------------------------------------------------------
(* C25 *)

\* the batch ids a caller may pass, valid or not
RequestedBatchIds == 0..(MaxBatches + 1)

\* a successful requestBatchDecryption by o
RequestSucceeds(o) ==
    /\ pendingCts' # pendingCts
    /\ \E b \in RequestedBatchIds : RequestBatchDecryption(o, b)

\* o has requested and the cooldown since its last request is running
DecryptionThrottled(o) ==
    /\ lastDecryptionRequestTime[o] > 0
    /\ now < lastDecryptionRequestTime[o] + cooldownSeconds

\* C25 as stated: after o's successful requestBatchDecryption at time t, any
\* requestBatchDecryption by o before t + cooldownSeconds, for any batch id,
\* raises CooldownActive.
C25_AsStated ==
    \A o \in Callers, b \in RequestedBatchIds :
        DecryptionThrottled(o) =>
            RequestBatchDecryptionError(o, b) = "CooldownActive"

C25_Throttle ==
    \A o \in Callers, b \in RequestedBatchIds :
        /\ (DecryptionThrottled(o) /\ o = owner /\ ~paused) =>
               RequestBatchDecryptionError(o, b) = "CooldownActive"
        /\ now >= lastDecryptionRequestTime[o] + cooldownSeconds =>
               RequestBatchDecryptionError(o, b) # "CooldownActive"

C25_Stamped ==
    /\ \A o \in Callers :
          RequestSucceeds(o) =>
              /\ lastDecryptionRequestTime'[o] = now
              /\ \A q \in Addr \ {o} :
                    lastDecryptionRequestTime'[q] = lastDecryptionRequestTime[q]
    /\ lastDecryptionRequestTime' # lastDecryptionRequestTime =>
          \E o \in Callers : RequestSucceeds(o)

C25_Separate ==
    /\ RequestStep =>
          /\ lastSubmissionTime' = lastSubmissionTime
          /\ \A q \in Callers :
                checkSubmissionCooldown(q)' = checkSubmissionCooldown(q)
    /\ SubmitStep =>
          /\ lastDecryptionRequestTime' = lastDecryptionRequestTime
          /\ \A q \in Callers :
                checkDecryptionCooldown(q)' = checkDecryptionCooldown(q)

\* C25 (amended): a successful requestBatchDecryption by owner o at time t
\* stamps lastDecryptionRequestTime[o] = t, and a requestBatchDecryption by
\* o before t + cooldownSeconds, for any batch id, valid or not, made while
\* o is still the owner and the contract is not paused, raises
\* CooldownActive; a submitBond changes no decryption stamp or verdict, and
\* a requestBatchDecryption changes no submission stamp or verdict.
C25_DecryptionThrottle ==
    /\ []C25_Throttle
    /\ [][UNCHANGED vars \/ (C25_Stamped /\ C25_Separate)]_vars

\* the owner is also a provider: its decryption cooldown is running after
\* a request while its submission cooldown, stamped earlier, has elapsed
C25_Witness ==
    /\ \E o \in Callers :
          /\ o = owner /\ providers[o] /\ ~paused
          /\ lastSubmissionTime[o] > 0
          /\ lastDecryptionRequestTime[o] = now
          /\ checkSubmissionCooldown(o) = Ok
          /\ \A b \in RequestedBatchIds :
                RequestBatchDecryptionError(o, b) = "CooldownActive"

----------------------------------------------------------------------------
(* C26 *)

RECURSIVE CountedBonds(_)
\* the sum of bondCount over the batches 1..n
CountedBonds(n) ==
    IF n = 0 THEN 0 ELSE batches[n].bondCount + CountedBonds(n - 1)

\* C26: in every reachable state totalBonds is the sum of bondCount over the
\* batches 1..currentBatchId, batch 0 and the batches not yet opened count
\* no bond, and each batch counts the bonds submitted while it was current.
C26_BondConservation ==
    /\ totalBonds = CountedBonds(currentBatchId)
    /\ batches[0].bondCount = 0
    /\ \A b \in BatchIds :
          /\ batches[b].bondCount = Len(submitted[b])
          /\ b > currentBatchId => batches[b].bondCount = 0

\* two bonds, one in each of two batches
C26_Witness ==
    /\ currentBatchId = 2 /\ totalBonds = 2
    /\ batches[1].bondCount = 1 /\ batches[2].bondCount = 1
    /\ batches[1].finalized

----------------------------------------------------------------------------
(* C27 *)

\* inputs for request id r: those a caller can supply, and a signature over
\* r itself, which passes the proof check whatever the state
InputsFor(r) == CallbackInputs \cup {<<Bogus, Sign(r, Bogus)>>}

C27_NeverIssued ==
    \A r \in ReqIds \ Issued :
        /\ decryptionContexts[r].stateHash = ZeroHash
        /\ completed[r] = <<>>
        /\ \A i \in InputsFor(r) :
              MyCallbackError(r, i[1], i[2]) = "StateMismatch"

\* the request that issues id r announces it with the batch id it stores
C27_Requested ==
    \A o \in Callers, b \in RequestedBatchIds :
        (pendingCts' # pendingCts /\ RequestBatchDecryption(o, b)) =>
            LET r == NextRequestId IN
            /\ r \notin Issued /\ r \in Issued'
            /\ RequestBatchDecryptionEmits(o, b) = <<DecryptionRequested(r, b)>>
            /\ decryptionContexts'[r].batchId = b

\* a completion is recorded only for an issued id, with the stored batch id
C27_Completed ==
    \A r \in ReqIds :
        /\ r \in Issued =>
              /\ r \in Issued'
              /\ decryptionContexts'[r].batchId = decryptionContexts[r].batchId
        /\ completed'[r] # completed[r] =>
              /\ r \in Issued
              /\ Len(completed'[r]) = Len(completed[r]) + 1
              /\ completed'[r][Len(completed'[r])].requestId = r
              /\ completed'[r][Len(completed'[r])].batchId =
                    decryptionContexts[r].batchId

\* C27: myCallback for a request id that requestBatchDecryption never
\* returned fails with StateMismatch whatever cleartexts and proof are
\* supplied, because its context has a zero stateHash; so each
\* DecryptionCompleted for an id follows the DecryptionRequested for that id
\* and carries the batch id stored by that request.
C27_NoCompletionWithoutRequest ==
    /\ []C27_NeverIssued
    /\ [][UNCHANGED vars \/ (C27_Requested /\ C27_Completed)]_vars

\* request 0 has completed for its batch while id 1 was never issued and a
\* callback for id 1, even with a signature over id 1, hits StateMismatch
C27_Witness ==
    /\ 0 \in Issued /\ 1 \notin Issued
    /\ Len(completed[0]) = 1
    /\ completed[0][1].batchId = decryptionContexts[0].batchId
    /\ completed[0][1].batchId >= 1
    /\ MyCallbackError(1, Bogus, Sign(1, Bogus)) = "StateMismatch"

----------------------------------------------------------------------------
(* C28 *)

\* the requests made so far for batch b
RequestsFor(b) == {r \in Issued : decryptionContexts[r].batchId = b}

\* a finalized batch can be requested whatever requests exist for it
C28_Repeatable ==
    \A o \in Callers, b \in 1..MaxBatches :
        (/\ o = owner /\ ~paused /\ checkDecryptionCooldown(o) = Ok
         /\ b <= currentBatchId /\ batches[b].finalized) =>
            RequestBatchDecryptionError(o, b) = Ok

\* a request adds one context under a fresh id and touches no other
C28_SeparateContext ==
    \A o \in Callers, b \in RequestedBatchIds :
        (pendingCts' # pendingCts /\ RequestBatchDecryption(o, b)) =>
            /\ Issued' = Issued \cup {NextRequestId}
            /\ decryptionContexts'[NextRequestId] =
                  [batchId |-> b,
                   stateHash |-> HashCiphertexts(BatchCts(b)),
                   processed |-> FALSE]
            /\ \A q \in ReqIds \ {NextRequestId} :
                  decryptionContexts'[q] = decryptionContexts[q]

\* a callback for r, completed or failed, touches no other request
C28_Independent ==
    \A r \in ReqIds :
        CallbackStep(r) =>
            \A q \in ReqIds \ {r} :
                decryptionContexts'[q] = decryptionContexts[q]

\* C28: a finalized batch may be requested again whenever the owner's
\* cooldown has elapsed, also when a processed context for it exists; each
\* successful request creates its own context under a new request id, and
\* a callback for one request, completed or failed, leaves the context of
\* every other request unchanged.
C28_RepeatedRequests ==
    /\ []C28_Repeatable
    /\ [][UNCHANGED vars \/ (C28_SeparateContext /\ C28_Independent)]_vars

\* two requests for the same batch under separate ids: the first has
\* completed, the second is pending with the same commitment
C28_Witness ==
    /\ Issued = {0, 1}
    /\ RequestsFor(decryptionContexts[0].batchId) = {0, 1}
    /\ decryptionContexts[0].stateHash = decryptionContexts[1].stateHash
    /\ Processed(0) /\ ~Processed(1)
    /\ Len(completed[0]) = 1 /\ completed[1] = <<>>

----------------------------------------------------------------------------
(* C29 *)

\* C29 as stated: a provider who has never submitted is rejected with
\* CooldownActive exactly when the current time is below cooldownSeconds.
C29_AsStated ==
    \A p \in Callers :
        (providers[p] /\ lastSubmissionTime[p] = 0) =>
            (SubmitBondError(p) = "CooldownActive" <=> now < cooldownSeconds)

\* the verdict is taken against the stamp plus the current cooldownSeconds
C29_Window ==
    \A p \in Callers :
        /\ (providers[p] /\ ~paused) =>
              (SubmitBondError(p) = "CooldownActive"
                  <=> now < lastSubmissionTime[p] + cooldownSeconds)
        /\ (p = owner /\ ~paused) =>
              \A b \in RequestedBatchIds :
                  (RequestBatchDecryptionError(p, b) = "CooldownActive"
                      <=> now < lastDecryptionRequestTime[p] + cooldownSeconds)

\* an address that has not been stamped has stamp 0
C29_NeverStamped ==
    /\ totalBonds = 0 => \A p \in Addr : lastSubmissionTime[p] = 0
    /\ Issued = {} => \A p \in Addr : lastDecryptionRequestTime[p] = 0
    /\ \A p \in Callers :
          (providers[p] /\ ~paused /\ lastSubmissionTime[p] = 0) =>
              (SubmitBondError(p) = "CooldownActive" <=> now < cooldownSeconds)

\* a new cooldownSeconds is applied to the stamps already written
C29_Retroactive ==
    cooldownSeconds' # cooldownSeconds =>
        /\ \E s \in Callers : SetCooldownSeconds(s, cooldownSeconds')
        /\ lastSubmissionTime' = lastSubmissionTime
        /\ lastDecryptionRequestTime' = lastDecryptionRequestTime
        /\ \A p \in Callers :
              /\ checkSubmissionCooldown(p)' = "CooldownActive"
                    <=> now < lastSubmissionTime[p] + cooldownSeconds'
              /\ checkDecryptionCooldown(p)' = "CooldownActive"
                    <=> now < lastDecryptionRequestTime[p] + cooldownSeconds'

\* C29 (amended): the cooldown check compares the current time with the
\* last stamp plus the current cooldownSeconds, a never-stamped address
\* having stamp 0: while the contract is not paused, a provider who has
\* never submitted is rejected with CooldownActive exactly when the current
\* time is below cooldownSeconds; and a change of cooldownSeconds applies
\* to the windows opened by earlier stamps.
C29_CurrentCooldown ==
    /\ [](C29_Window /\ C29_NeverStamped)
    /\ [][C29_Retroactive]_vars

\* bob's window under the initial cooldown has elapsed, yet bob is
\* throttled because cooldownSeconds has been raised
C29_Witness ==
    /\ providers["bob"] /\ ~paused
    /\ lastSubmissionTime["bob"] > 0
    /\ now >= lastSubmissionTime["bob"] + InitialCooldown
    /\ cooldownSeconds > InitialCooldown
    /\ SubmitBondError("bob") = "CooldownActive"

----------------------------------------------------------------------------
(* C30 *)

\* p is inside the window after its last stamp
InSubmissionWindow(p) == now < lastSubmissionTime[p] + cooldownSeconds
InDecryptionWindow(p) == now < lastDecryptionRequestTime[p] + cooldownSeconds

C30_SubmitBond ==
    \A p \in Callers :
        LET e == SubmitBondError(p) IN
        /\ ~providers[p] => e = "NotProvider"
        /\ (providers[p] /\ paused) => e = "PausedState"
        /\ (providers[p] /\ ~paused /\ InSubmissionWindow(p)) =>
              e = "CooldownActive"
        /\ e = "BatchNotOpen" <=>
              (/\ providers[p] /\ ~paused /\ ~InSubmissionWindow(p)
               /\ ~batchOpen)

C30_RequestBatchDecryption ==
    \A o \in Callers, b \in RequestedBatchIds :
        LET e == RequestBatchDecryptionError(o, b) IN
        /\ o # owner => e = "NotOwner"
        /\ (o = owner /\ paused) => e = "PausedState"
        /\ (o = owner /\ ~paused /\ InDecryptionWindow(o)) =>
              e = "CooldownActive"
        /\ e = "InvalidBatch" <=>
              (/\ o = owner /\ ~paused /\ ~InDecryptionWindow(o)
               /\ InvalidBatchCheck(b) # Ok)

\* a call goes through only when none of its preconditions fails
C30_Accepted ==
    /\ \A p \in Callers :
          SubmitSucceeds(p) =>
              /\ providers[p] /\ ~paused /\ batchOpen
              /\ ~InSubmissionWindow(p)
    /\ \A o \in Callers :
          RequestSucceeds(o) =>
              /\ o = owner /\ ~paused /\ ~InDecryptionWindow(o)
              /\ \E b \in 1..currentBatchId :
                    /\ batches[b].finalized
                    /\ decryptionContexts'[NextRequestId].batchId = b

\* C30: when several preconditions fail at once, submitBond reports
\* NotProvider before PausedState before CooldownActive before BatchNotOpen,
\* and requestBatchDecryption reports NotOwner before PausedState before
\* CooldownActive before InvalidBatch; a call that passes all four succeeds.
C30_ErrorPrecedence ==
    /\ [](C30_SubmitBond /\ C30_RequestBatchDecryption)
    /\ [][UNCHANGED vars \/ C30_Accepted]_vars

\* bob, a provider inside its cooldown, submits with no batch open and gets
\* CooldownActive, while the owner inside its own cooldown asks for a batch
\* that does not exist and gets CooldownActive as well
C30_Witness ==
    /\ providers["bob"] /\ ~paused /\ ~batchOpen
    /\ lastSubmissionTime["bob"] > 0 /\ InSubmissionWindow("bob")
    /\ SubmitBondError("bob") = "CooldownActive"
    /\ lastDecryptionRequestTime[owner] > 0 /\ InDecryptionWindow(owner)
    /\ RequestBatchDecryptionError(owner, 0) = "CooldownActive"

----------------------------------------------------------------------------
(* C31 *)

\* batch b was opened and closed and received no submission
EmptyFinalized(b) ==
    /\ b \in 1..currentBatchId
    /\ batches[b].finalized
    /\ submitted[b] = <<>>

C31_Eligible ==
    \A b \in 1..MaxBatches :
        EmptyFinalized(b) =>
            /\ batches[b].bondCount = 0
            /\ batches[b].totalEncryptedAmount = Zero32
            /\ (~paused /\ checkDecryptionCooldown(owner) = Ok) =>
                  RequestBatchDecryptionError(owner, b) = Ok
            /\ \A o \in Callers :
                  RequestBatchDecryptionError(o, b) # "InvalidBatch"

\* a pending request for an empty batch is completed by the oracle's
\* answer, which is zero for both values
C31_Completes ==
    \A r \in Issued :
        EmptyFinalized(decryptionContexts[r].batchId) =>
            /\ TrueCleartexts(r) = <<AsEuint32(0), AsEuint32(0)>>
            /\ ~Processed(r) =>
                  MyCallbackError(r, TrueCleartexts(r), ValidProof(r)) = Ok
            /\ \A k \in 1..Len(completed[r]) :
                  /\ completed[r][k].totalAmount = AsEuint32(0)
                  /\ completed[r][k].bondCount = AsEuint32(0)

\* C31: a batch opened and closed without submissions is finalized with
\* bondCount 0 and a zero total, requestBatchDecryption accepts it like any
\* other finalized batch, and a valid callback for it completes with
\* totalAmount 0 and bondCount 0.
C31_EmptyBatch == C31_Eligible /\ C31_Completes

\* the decryption of an empty batch has completed with two zeros
C31_Witness ==
    \E r \in Issued :
        /\ EmptyFinalized(decryptionContexts[r].batchId)
        /\ Processed(r) /\ Len(completed[r]) = 1
        /\ completed[r][1].batchId = decryptionContexts[r].batchId
        /\ completed[r][1].totalAmount = AsEuint32(0)
        /\ completed[r][1].bondCount = AsEuint32(0)

----------------------------------------------------------------------------
(* C32 *)

\* no call of the front end is between its read and its write, and none
\* that started has failed
AllCompleted ==
    /\ \A c \in Clients : calls[c].pc = "idle"
    /\ ledger.failed = 0

\* the record stored for bond id
StoredBond(id) == JSONParse(ToUtf8String(GetData(BondKey(id))))

C32_Conserved ==
    AllCompleted =>
        \A id \in WebBondIds :
            Length(GetData(BondKey(id))) > 0 =>
                /\ FHEDecryptNumber(StoredBond(id).currentRaised) =
                      FHEDecryptNumber(ledger.original[id].currentRaised)
                          + ledger.invested[id]
                /\ [StoredBond(id) EXCEPT !.currentRaised =
                        ledger.original[id].currentRaised]
                      = ledger.original[id]

C32_RejectedWritesNothing ==
    \A c \in Clients, id \in WebBondIds, a \in WebAmounts :
        (InvestInBondError(id, TRUE) # Ok /\ InvestInBond(c, id, a, TRUE)) =>
            UNCHANGED vars

\* C32: when every investInBond call on an active bond has completed
\* successfully, in whatever interleaving, the stored currentRaised decodes
\* to the initial raised amount plus the sum of the invested amounts and
\* the other fields of the record are as created; a call on a missing or
\* non-active bond writes nothing.
C32_NoInvestmentLost ==
    /\ []C32_Conserved
    /\ [][C32_RejectedWritesNothing]_vars

----------------------------------------------------------------------------
(* C33 *)

\* how often id occurs in a list of ids
Occurrences(id, keys) == Cardinality({i \in 1..Len(keys) : keys[i] = id})

C33_Listed ==
    AllCompleted =>
        /\ \A i \in 1..Len(ledger.created) :
              Occurrences(ledger.created[i], StoredKeys(data)) = 1
        /\ \A id \in WebBondIds :
              Length(GetData(BondKey(id))) > 0 =>
                  /\ Occurrences(id, StoredKeys(data)) = 1
                  /\ \E k \in 1..Len(LoadBonds(data)) :
                        LoadBonds(data)[k].id = id

C33_NewBond ==
    \A id \in 1..ledger.taken :
        /\ FHEDecryptNumber(ledger.original[id].currentRaised) = 0
        /\ ledger.original[id].status = "active"

\* C33: when every createBond call has completed successfully, in whatever
\* interleaving, "bond_keys" lists the id of every created bond exactly
\* once, so every stored bond record is listed and returned by loadBonds;
\* each new bond is stored with currentRaised encoding 0 and status
\* "active".
C33_EveryBondListed == C33_Listed /\ C33_NewBond

====
